---- MODULE Spec2Model ----
(***************************************************************************)
(* Website file extractor: the extraction pipeline of routes.ts            *)
(* (extractWebsiteFiles, started by POST /api/extract) over the in-memory  *)
(* store of storage.ts (MemStorage), under Spec and FairSpec, and the      *)
(* standalone server with its own map and pipeline, under ServerSpec.      *)
(* WideSpec runs the pipeline on a page with more images than one batch    *)
(* holds, ReadSpec adds the status and download handlers, StoreSpec calls  *)
(* MemStorage directly, PairSpec runs extractions side by side, and        *)
(* PollSpec and PollFairSpec add the polling page of home.tsx.             *)
(*                                                                         *)
(* Node runs the handlers on one event loop: a handler runs without        *)
(* interruption up to its next `await`, so every action below is the code  *)
(* between two suspension points of one extraction.                        *)
(***************************************************************************)
EXTENDS Naturals, Sequences, FiniteSets, TLC

(***************************************************************************)
(* Bounds of the model.                                                    *)
(***************************************************************************)
\* number of POST /api/extract requests accepted in one behaviour
MaxExtractions == 1
\* number of files a direct caller of the store appends to one record
MaxFiles == 2
\* number of extractions running side by side under PairSpec
MaxConcurrent == 2

(***************************************************************************)
(* Program constants.                                                      *)
(***************************************************************************)
batchSize == 10
\* first length test of a batch member: assetUrl.length > 2000
MaxUrlLength == 2000
\* second length test of a batch member: assetUrl.length > 1000
MaxFetchUrlLength == 1000
\* Array.from(potentialApiUrls).slice(0, 5)
MaxProbes == 5

(***************************************************************************)
(* Small helpers on sequences.                                             *)
(***************************************************************************)
Range(s) == {s[k] : k \in 1..Len(s)}

Last(s) == s[Len(s)]

Min(a, b) == IF a < b THEN a ELSE b

\* xs without the repetitions of its elements
Distinct(xs) ==
  LET ranked == SelectSeq([k \in 1..Len(xs) |-> <<k, xs[k]>>],
                          LAMBDA e : \A j \in 1..(e[1] - 1) : xs[j] # e[2])
  IN  [k \in 1..Len(ranked) |-> ranked[k][2]]

\* Array.prototype.push of every element of xs in place of Set.prototype.add
PushAll(s, xs) == s \o xs

\* Set.prototype.add of every element of xs, in order
SetAddAll(s, xs) == s \o SelectSeq(Distinct(xs), LAMBDA x : x \notin Range(s))

RECURSIVE Flatten(_)
Flatten(ss) == IF ss = <<>> THEN <<>> ELSE Head(ss) \o Flatten(Tail(ss))

\* Array.prototype.slice(0, n)
Slice0(s, n) == SubSeq(s, 1, Min(n, Len(s)))

(***************************************************************************)
(* Strings that stand for URLs.  A file name is the sequence of its        *)
(* dot-separated parts; a path name is the sequence of the file names      *)
(* between its slashes ("/" is <<EmptyName>>).  form says how the WHATWG   *)
(* parser reads the string: "abs" an absolute URL, "path" a path-absolute  *)
(* reference ("/x/y"), "rel" a path-relative one ("x/y"), "bad" a string   *)
(* it rejects even against a base.  extra counts the characters of a query *)
(* string that the model does not spell out.                               *)
(***************************************************************************)
EmptyName == <<"">>

Str(scheme, host, segs, form, extra) ==
  [scheme |-> scheme, host |-> host, segs |-> segs, form |-> form, extra |-> extra]

Https(host, segs) == Str("https:", host, segs, "abs", 0)

PathRef(segs) == Str("", "", segs, "path", 0)

RelRef(segs) == Str("", "", segs, "rel", 0)

\* data:image/png;base64,<tag>
DataUri(tag) == Str("data:", "", <<<<"image">>, <<"png;base64," \o tag>>>>, "abs", 0)

\* "http://[" and the like: new URL(relative, base) throws
BadRef == Str("", "", <<<<"http:">>, <<"">>, <<"[">>>>, "bad", 0)

RECURSIVE NameString(_)
\* the file name as one string
NameString(fileName) ==
  IF Len(fileName) = 1 THEN fileName[1]
  ELSE fileName[1] \o "." \o NameString(Tail(fileName))

RECURSIVE RelString(_)
\* the file names joined by slashes
RelString(segs) ==
  IF Len(segs) = 1 THEN NameString(segs[1])
  ELSE NameString(segs[1]) \o "/" \o RelString(Tail(segs))

\* the text of a string of the model, without its extra characters
Text(s) ==
  CASE s.form = "abs" /\ s.host # "" -> s.scheme \o "//" \o s.host \o "/" \o RelString(s.segs)
    [] s.form = "path" -> "/" \o RelString(s.segs)
    [] OTHER -> s.scheme \o RelString(s.segs)

\* String.prototype.length
Length(s) == Len(Text(s)) + s.extra

\* new URL(s) of one argument succeeds
IsAbsoluteUrl(s) == s.form = "abs"

\* s.startsWith('data:')
StartsWithData(s) == s.form = "abs" /\ s.scheme = "data:"

\* new URL(s).origin
Origin(u) == <<u.scheme, u.host>>

\* the protocols axios.get sends a request for; it rejects any other
IsNetwork(u) == u.scheme \in {"http:", "https:"}

\* the path name of the directory of u: everything up to the last slash
Directory(u) == SubSeq(u.segs, 1, Len(u.segs) - 1)

resolveUrl(base, relative) ==
  CASE relative.form = "abs" -> relative
    [] relative.form = "path" /\ IsAbsoluteUrl(base) ->
         Str(base.scheme, base.host, relative.segs, "abs", relative.extra)
    [] relative.form = "rel" /\ IsAbsoluteUrl(base) ->
         Str(base.scheme, base.host, Directory(base) \o relative.segs, "abs",
             relative.extra)
    [] OTHER -> relative

(***************************************************************************)
(* Classification by file name.                                            *)
(***************************************************************************)
\* String.prototype.toLowerCase on the extensions of the model
ToLowerCase(s) ==
  CASE s = "PNG" -> "png"
    [] s = "CSS" -> "css"
    [] OTHER -> s

\* fileName.split('.').pop()?.toLowerCase()
Extension(fileName) == ToLowerCase(Last(fileName))

getFileType(fileName) ==
  LET ext == Extension(fileName) IN
  CASE ext = "css" -> "css"
    [] ext \in {"js", "mjs", "ts", "jsx", "tsx"} -> "js"
    [] ext \in {"html", "htm"} -> "html"
    [] ext \in {"png", "jpg", "jpeg", "gif", "svg", "webp", "ico", "bmp", "tiff"} -> "image"
    [] ext \in {"json", "xml"} -> "payload"
    [] OTHER -> "other"

\* the category itself used as the folder
getFolderIsType(type) == type

getFolderPath(type) ==
  CASE type = "css" -> "css"
    [] type = "js" -> "js"
    [] type = "image" -> "images"
    [] type = "payload" -> "payloads"
    [] OTHER -> "assets"

getMimeType(fileName) ==
  LET ext == Extension(fileName) IN
  CASE ext = "css" -> "text/css"
    [] ext = "js" -> "application/javascript"
    [] ext \in {"html", "htm"} -> "text/html"
    [] ext = "json" -> "application/json"
    [] ext = "png" -> "image/png"
    [] ext \in {"jpg", "jpeg"} -> "image/jpeg"
    [] ext = "gif" -> "image/gif"
    [] ext = "svg" -> "image/svg+xml"
    [] OTHER -> "text/plain"

BinaryExtensions ==
  {"png", "jpg", "jpeg", "gif", "webp", "ico", "bmp", "tiff", "woff", "woff2",
   "ttf", "eot", "otf", "mp4", "webm", "ogg", "mp3", "wav", "pdf"}

\* fileName.split('.').pop()?.toLowerCase() || '' is in the binary list
IsBinary(fileName) == Extension(fileName) \in BinaryExtensions

\* urlObj.pathname.split('/').pop() || 'file', then the query-free name
\* (a pathname holds no '?', so split('?')[0] is the whole segment, which
\* is then never empty)
AssetFileName(u) ==
  IF Last(u.segs) = EmptyName THEN <<"file">> ELSE Last(u.segs)

(***************************************************************************)
(* Stored content.  Text is kept as it is; binary data is kept as          *)
(* `data:<mime>;base64,<base64 of the bytes>`.  A base64 text is the       *)
(* sequence of its symbols: 0..63, and 64 for the padding '='.             *)
(***************************************************************************)
Pad == 64

RECURSIVE Base64(_)
\* Buffer.from(bytes).toString('base64')
Base64(bytes) ==
  CASE Len(bytes) = 0 -> <<>>
    [] Len(bytes) = 1 ->
         <<bytes[1] \div 4, (bytes[1] % 4) * 16, Pad, Pad>>
    [] Len(bytes) = 2 ->
         <<bytes[1] \div 4, (bytes[1] % 4) * 16 + bytes[2] \div 16,
           (bytes[2] % 16) * 4, Pad>>
    [] OTHER ->
         <<bytes[1] \div 4, (bytes[1] % 4) * 16 + bytes[2] \div 16,
           (bytes[2] % 16) * 4 + bytes[3] \div 64, bytes[3] % 64>>
         \o Base64(SubSeq(bytes, 4, Len(bytes)))

TextContent(text) == [kind |-> "text", text |-> text, mime |-> "", b64 |-> <<>>]

\* a data URI carrying the bytes as they are, without the base64 encoding
DataUriContentRaw(mime, bytes) ==
  [kind |-> "datauri", text |-> "", mime |-> mime, b64 |-> bytes]

\* `data:${mime};base64,${base64}`
DataUriContent(mime, bytes) ==
  [kind |-> "datauri", text |-> "", mime |-> mime, b64 |-> Base64(bytes)]

\* Buffer.byteLength(content, 'utf8') of a stored content (ASCII texts)
ByteLength(content) ==
  IF content.kind = "text" THEN Len(content.text)
  ELSE Len("data:") + Len(content.mime) + Len(";base64,") + Len(content.b64)

(***************************************************************************)
(* The web the extractor runs against: three root pages (one with assets,  *)
(* one with script text naming API endpoints, one with eleven images, ten  *)
(* of them on a host that is down), the parsed form of their documents     *)
(* (what the cheerio selectors of the scan return, in document order), the *)
(* bodies of the assets and the API endpoints.  Every request may also     *)
(* fail, whatever the web holds.                                           *)
(***************************************************************************)
Pages == {"site", "app", "wide"}

RootUrl(page) ==
  CASE page = "site" -> Https("ex.com", <<EmptyName>>)
    [] page = "app" -> Https("app.ex", <<EmptyName>>)
    [] page = "wide" -> Https("wide.ex", <<EmptyName>>)

ACss == PathRef(<<<<"a", "css">>>>)
RootPng == PathRef(<<<<"p", "png">>>>)
PPng == PathRef(<<<<"img">>, <<"p", "png">>>>)
\* <iframe src="about:blank">
AboutBlank == Str("about:", "", <<<<"blank">>>>, "abs", 0)
\* a reference with a query string of 1500 characters
LongRef == Str("", "", <<<<"t", "json">>>>, "path", 1500)
\* a reference with a query string of 2500 characters
HugeRef == Str("", "", <<<<"u", "gif">>>>, "path", 2500)

\* <img src="https://down.ex/k.png">, on a host that answers nothing
DownPng(k) == Https("down.ex", <<<<<<"1", "2", "3", "4", "5", "6", "7", "8", "9", "10">>[k], "png">>>>)
\* <img src="/docs/">
DocsRef == PathRef(<<<<"docs">>, EmptyName>>)

NoDocument ==
  [text |-> "", stylesheets |-> <<>>, scripts |-> <<>>, imgs |-> <<>>,
   links |-> <<>>, inlineScripts |-> <<>>, styles |-> <<>>, media |-> <<>>,
   styleUrls |-> <<>>]

Document(page) ==
  IF page = "site" THEN
    [text |-> "<html>site</html>",
     stylesheets |-> <<ACss>>,
     scripts |-> <<>>,
     imgs |-> <<RootPng,
                DataUri("1"), DataUri("2"), DataUri("3"), DataUri("4"),
                DataUri("5"), DataUri("6"), DataUri("7"), DataUri("8"),
                BadRef, LongRef, HugeRef, PPng,
                DataUri("a"), DataUri("b"), DataUri("c")>>,
     links |-> <<[href |-> PPng, rel |-> "icon"],
                 [href |-> ACss, rel |-> "stylesheet"]>>,
     inlineScripts |->
       <<[text |-> "let y", imports |-> <<>>, apis |-> <<>>],
         [text |-> " ", imports |-> <<>>, apis |-> <<>>]>>,
     styles |-> <<"color:red">>,
     media |-> <<AboutBlank>>,
     styleUrls |-> <<>>]
  ELSE IF page = "wide" THEN
    [NoDocument EXCEPT
       !.text = "<html>wide</html>",
       !.imgs = [k \in 1..10 |-> DownPng(k)] \o <<DocsRef>>]
  ELSE
    [NoDocument EXCEPT
       !.text = "<html>app</html>",
       !.inlineScripts =
         <<[text |-> "fetch('/api/data')", imports |-> <<>>,
            apis |-> <<PathRef(<<<<"api">>, <<"data">>>>),
                       PathRef(<<<<"v1">>, <<"x">>>>),
                       Https("api.other.ex", <<<<"api">>, <<"x">>>>)>>]>>]

NoBody == [ctype |-> "", text |-> "", bytes |-> <<>>, imports |-> <<>>, urls |-> <<>>]

\* the body a 2xx answer for asset URL u carries; imports and urls are what
\* the two regular expressions of the CSS scan match in its text
AssetBody(u) ==
  LET name == Last(u.segs) IN
  CASE u.segs = <<<<"img">>, <<"p", "png">>>> ->
         [NoBody EXCEPT !.ctype = "image/x-png", !.bytes = <<137, 80, 78, 71, 13>>]
    [] name = <<"u", "gif">> ->
         [NoBody EXCEPT !.ctype = "text/html", !.text = "<html>404</html>",
                        !.bytes = <<60, 104, 116, 109, 108, 62>>]
    [] u.segs = <<<<"docs">>, EmptyName>> ->
         [NoBody EXCEPT !.ctype = "text/html", !.text = "<html>docs</html>",
                        !.bytes = <<60, 104, 116, 109, 108, 62>>]
    [] name = <<"a", "css">> ->
         [NoBody EXCEPT !.ctype = "text/css", !.text = "@import 'b.css';",
                        !.imports = <<RelRef(<<<<"b", "css">>>>)>>,
                        !.urls = <<RelRef(<<<<"f", "woff">>>>), DataUri("9"),
                                   RelRef(<<<<"p", "png">>>>)>>]
    [] name = <<"b", "css">> ->
         [NoBody EXCEPT !.ctype = "text/css", !.text = "@import 'c.css';",
                        !.imports = <<RelRef(<<<<"c", "css">>>>)>>]
    [] name = <<"c", "css">> ->
         [NoBody EXCEPT !.ctype = "text/css", !.text = "@import 'a.css';",
                        !.imports = <<RelRef(<<<<"a", "css">>>>)>>]
    [] name = <<"t", "json">> ->
         [NoBody EXCEPT !.ctype = "application/json", !.text = "[1]",
                        !.bytes = <<91, 49, 93>>]
    [] name = <<"p", "png">> ->
         [NoBody EXCEPT !.bytes = <<137, 80, 78, 71>>]
    [] name = <<"f", "woff">> ->
         [NoBody EXCEPT !.ctype = "font/woff", !.bytes = <<119, 79>>]
    [] OTHER -> NoBody

ApiPaths(host) ==
  CASE host = "app.ex" -> {<<<<"api">>, <<"data">>>>, <<<<"api">>, <<"status">>>>}
    [] host = "ex.com" -> {<<<<"api">>, <<"health">>>>}
    [] host = "wide.ex" -> {<<<<"api">>, <<"health">>>>}
    [] OTHER -> {}

\* the endpoints of the web that answer 2xx
HasEndpoint(u) == u.segs \in ApiPaths(u.host)

\* the answer of an endpoint: json is JSON.stringify(data), indented is
\* data as JSON.stringify(wrapper, null, 2) prints it under a key
ApiAnswer(u) ==
  IF u.segs = <<<<"api">>, <<"status">>>> THEN
    [status |-> "200", ctype |-> "text/html", json |-> "\"up\"",
     indented |-> "\"up\""]
  ELSE
    [status |-> "200", ctype |-> "application/json",
     json |-> "{\"ok\":true}", indented |-> "{\n    \"ok\": true\n  }"]

\* headers['content-type']?.includes('json')
IncludesJson(ctype) == ctype \in {"application/json", "application/json; charset=utf-8"}

\* the messages of the errors axios.get rejects with
RootErrors ==
  {"Network Error", "timeout of 15000ms exceeded", "Request failed with status code 500"}

\* the asset URLs whose GET can be answered 2xx: a network scheme, and a
\* host that is up
Answers(u) == IsNetwork(u) /\ u.host # "down.ex"

\* how an asset GET can fail
AssetErrors == {"network", "timeout", "status", "maxContentLength"}

(***************************************************************************)
(* State.                                                                  *)
(***************************************************************************)
VARIABLES
  extractions,  \* MemStorage.extractions: id -> ExtractionResult
  proc,         \* id -> the locals and the position of its extractWebsiteFiles
  gets,         \* id -> the GET requests issued for it so far, in order
  sent,         \* id -> the body the start operation answered with
  reply         \* the answer to the last read request or direct storage call

vars == <<extractions, proc, gets, sent, reply>>

\* nothing has been asked yet
NoReply == [op |-> "none"]

Requests ==
  [page : {"site", "app"}, includePayloads : BOOLEAN, includeSourcePage : BOOLEAN]

\* the request for the page with eleven images
WideRequests ==
  [page : {"wide"}, includePayloads : {TRUE}, includeSourcePage : {TRUE}]

(***************************************************************************)
(* MemStorage.                                                             *)
(***************************************************************************)
RECURSIVE SumSizes(_)
\* files.reduce((sum, f) => sum + f.size, 0)
SumSizes(files) ==
  IF files = <<>> THEN 0 ELSE Head(files).size + SumSizes(Tail(files))

\* { ...existing, ...updates }
Merge(existing, updates) ==
  [k \in DOMAIN existing \cup DOMAIN updates |->
     IF k \in DOMAIN updates THEN updates[k] ELSE existing[k]]

createExtractionResult(store, id, url) ==
  store @@ (id :> [id |-> id, url |-> url, status |-> "pending", files |-> <<>>,
                   totalSize |-> 0, totalFiles |-> 0,
                   extractedAt |-> Cardinality(DOMAIN store)])

\* updateExtractionResult stamping the record with the time of the update
updateRestamps(store, id, updates) ==
  IF id \notin DOMAIN store THEN store
  ELSE [store EXCEPT ![id] = Merge(Merge(@, updates), [extractedAt |-> @.extractedAt + 1])]

\* updateExtractionResult setting the key when the map does not hold it
updateUpserts(store, id, updates) ==
  IF id \notin DOMAIN store THEN store @@ (id :> updates)
  ELSE [store EXCEPT ![id] = Merge(@, updates)]

\* updateExtractionResult writing the updates into every record of the map
updateAll(store, id, updates) ==
  IF id \notin DOMAIN store THEN store
  ELSE [k \in DOMAIN store |-> Merge(store[k], updates)]

\* throws "Extraction not found", leaving the map as it is, on an unknown id
updateExtractionResult(store, id, updates) ==
  IF id \notin DOMAIN store THEN store
  ELSE [store EXCEPT ![id] = Merge(@, updates)]

\* addFileToExtraction putting the file in front (unshift for push)
addFilePrepends(store, id, file) ==
  IF id \notin DOMAIN store THEN store
  ELSE LET files == <<file>> \o store[id].files IN
       [store EXCEPT ![id] = [@ EXCEPT !.files = files,
                                       !.totalFiles = Len(files),
                                       !.totalSize = SumSizes(files)]]

\* addFileToExtraction with totalSize left as it was
addFileKeepsTotalSize(store, id, file) ==
  IF id \notin DOMAIN store THEN store
  ELSE LET files == Append(store[id].files, file) IN
       [store EXCEPT ![id] = [@ EXCEPT !.files = files, !.totalFiles = Len(files)]]

\* throws "Extraction not found", leaving the map as it is, on an unknown id
addFileToExtraction(store, id, file) ==
  IF id \notin DOMAIN store THEN store
  ELSE LET files == Append(store[id].files, file) IN
       [store EXCEPT ![id] = [@ EXCEPT !.files = files,
                                       !.totalFiles = Len(files),
                                       !.totalSize = SumSizes(files)]]

(***************************************************************************)
(* Files built by extractWebsiteFiles.  randomUUID() is fresh at every     *)
(* call: the id of a file is the pair of its extraction and its rank, and  *)
(* the eight random characters of a synthesized name spell the rank.       *)
(***************************************************************************)
\* z.enum(["html", "css", "js", "image", "payload", "other"])
FileTypes == {"html", "css", "js", "image", "payload", "other"}

File(id, name, path, type, size, content, mimeType) ==
  [id |-> id, name |-> name, path |-> path, type |-> type, size |-> size,
   content |-> content, mimeType |-> mimeType]

FreshId(store, id) == <<id, Len(store[id].files) + 1>>

Random8Values ==
  <<"0000000a", "0000000b", "0000000c", "0000000d", "0000000e", "0000000f",
    "00000010", "00000011", "00000012">>

Random8(store, id) == Random8Values[Len(store[id].files) + 1]

\* scriptContent && scriptContent.trim()
NonBlank(text) == text \notin {"", " "}

InlineScriptFile(store, id, text) ==
  LET fileName == "inline-script-" \o Random8(store, id) \o ".js" IN
  File(FreshId(store, id), fileName, "js/" \o fileName, "js",
       ByteLength(TextContent(text)), TextContent(text), "application/javascript")

InlineStyleFile(store, id, text) ==
  LET fileName == "inline-style-" \o Random8(store, id) \o ".css" IN
  File(FreshId(store, id), fileName, "css/" \o fileName, "css",
       ByteLength(TextContent(text)), TextContent(text), "text/css")

SourceFile(store, id, text) ==
  File(FreshId(store, id), "index.html", "index.html", "html",
       ByteLength(TextContent(text)), TextContent(text), "text/html")

\* the file of a 2xx answer with the given body for assetUrl
AssetFile(store, id, assetUrl, body) ==
  LET fileName == AssetFileName(assetUrl)
      fileType == getFileType(fileName)
      mimeType == IF body.ctype # "" THEN body.ctype ELSE getMimeType(fileName)
      content  == IF IsBinary(fileName) THEN DataUriContent(mimeType, body.bytes)
                  ELSE TextContent(body.text)
      size     == IF IsBinary(fileName) THEN Len(body.bytes)
                  ELSE ByteLength(content)
  IN  File(FreshId(store, id), NameString(fileName),
           getFolderPath(fileType) \o "/" \o NameString(fileName), fileType,
           size, content, mimeType)

\* JSON.stringify({url, status, headers, data}, null, 2)
WrapperText(apiUrl, answer) ==
  "{\n  \"url\": \"" \o Text(apiUrl) \o "\",\n  \"status\": " \o answer.status
  \o ",\n  \"headers\": {\n    \"content-type\": \"" \o answer.ctype
  \o "\"\n  },\n  \"data\": " \o answer.indented \o "\n}"

PayloadFile(store, id, apiUrl, answer, payloadCount) ==
  LET fileName == "api-response-" \o <<"1", "2", "3", "4", "5">>[payloadCount] \o ".json" IN
  File(FreshId(store, id), fileName, "payloads/" \o fileName, "payload",
       Len(answer.json), TextContent(WrapperText(apiUrl, answer)), "application/json")

(***************************************************************************)
(* extractWebsiteFiles.  A frame is what one run of the function works on: *)
(* the store, its own locals p and the requests it has issued.  The        *)
(* operators below run the code from one point up to the next `await`.     *)
(***************************************************************************)
NewProc(req) ==
  [pc |-> "created", page |-> req.page,
   includePayloads |-> req.includePayloads,
   includeSourcePage |-> req.includeSourcePage,
   assets |-> <<>>, assetArray |-> <<>>, i |-> 0, members |-> <<>>,
   apiUrls |-> <<>>, probe |-> 0, payloadCount |-> 0, error |-> ""]

Frame(store, p, issued) == [store |-> store, p |-> p, gets |-> issued]

\* a request: "inflight", then "failed", or "answered" (2xx, its handling
\* under way) and then "settled"
Get(url, kind, batch) == [url |-> url, kind |-> kind, batch |-> batch, state |-> "inflight"]

Over(g) == g.state \in {"failed", "settled"}

\* the request for url moves to state st
Mark(issued, url, kind, st) ==
  [k \in 1..Len(issued) |->
     IF issued[k].url = url /\ issued[k].kind = kind
     THEN [issued[k] EXCEPT !.state = st] ELSE issued[k]]

ResolveAll(base, refs) == [k \in 1..Len(refs) |-> resolveUrl(base, refs[k])]

\* the rel values and the font extensions that make a <link href> an asset
AssetLink(link) ==
  \/ link.rel \in {"icon", "shortcut icon", "apple-touch-icon", "manifest",
                   "preload", "prefetch"}
  \/ \E k \in 1..Len(link.href.segs) :
       \E j \in 2..Len(link.href.segs[k]) :
         link.href.segs[k][j] \in {"woff", "woff2", "ttf", "eot"}

NotData(ref) == ~StartsWithData(ref)

\* the references the scan of the root document adds to `assets`, in order
ScannedReferences(doc) ==
  LET links   == SelectSeq(doc.links, AssetLink)
      scripts == SelectSeq(doc.inlineScripts, LAMBDA sc : NonBlank(sc.text))
  IN  doc.stylesheets \o doc.scripts \o doc.imgs
      \o [k \in 1..Len(links) |-> links[k].href]
      \o SelectSeq(Flatten([k \in 1..Len(scripts) |-> scripts[k].imports]), NotData)
      \o doc.media \o doc.styleUrls

\* `assets` at the end of the scan of the root document, for each page
ScannedAssets ==
  [page \in Pages |->
     SetAddAll(<<>>, ResolveAll(RootUrl(page), ScannedReferences(Document(page))))]

RECURSIVE AddInlineScripts(_, _, _)
AddInlineScripts(store, id, scripts) ==
  IF scripts = <<>> THEN store
  ELSE AddInlineScripts(
         IF NonBlank(Head(scripts).text)
         THEN addFileToExtraction(store, id, InlineScriptFile(store, id, Head(scripts).text))
         ELSE store,
         id, Tail(scripts))

RECURSIVE AddInlineStyles(_, _, _)
AddInlineStyles(store, id, styles) ==
  IF styles = <<>> THEN store
  ELSE AddInlineStyles(
         IF NonBlank(Head(styles))
         THEN addFileToExtraction(store, id, InlineStyleFile(store, id, Head(styles)))
         ELSE store,
         id, Tail(styles))

\* the tests a batch member makes before its GET
SkipsFetch(assetUrl) ==
  \/ Length(assetUrl) = 0
  \/ Length(assetUrl) > MaxUrlLength
  \/ ~IsAbsoluteUrl(assetUrl)
  \/ StartsWithData(assetUrl)
  \/ Length(assetUrl) > MaxFetchUrlLength

\* the batch loop walking the live set instead of its snapshot
LiveAssets(p) == p.assets

\* the array the batch loop walks
LoopArray(p) == p.assetArray

\* Promise.race in place of Promise.allSettled
SomeSettled(members) == \E k \in 1..Len(members) : members[k] = "settled"

\* Promise.allSettled(batch...) is fulfilled
AllSettled(members) == \A k \in 1..Len(members) : members[k] = "settled"

\* the end of the function without the completing update
CompleteKeepsProcessing(id, f) ==
  Frame(f.store, [f.p EXCEPT !.pc = "completing"], f.gets)

\* await storage.updateExtractionResult(extractionId, { status: "completed" })
Complete(id, f) ==
  Frame(updateExtractionResult(f.store, id, [status |-> "completed"]),
        [f.p EXCEPT !.pc = "completing"], f.gets)

\* the head of the probe loop at its n-th URL
IssueProbe(id, f, n) ==
  IF n > Len(f.p.apiUrls) THEN Complete(id, f)
  ELSE Frame(f.store, [f.p EXCEPT !.pc = "probe", !.probe = n],
             Append(f.gets, Get(f.p.apiUrls[n], "probe", 0)))

CommonEndpoints ==
  <<PathRef(<<<<"api">>, <<"status">>>>), PathRef(<<<<"api">>, <<"health">>>>),
    PathRef(<<<<"api">>, <<"version">>>>), PathRef(<<<<"graphql">>>>)>>

\* Array.from(potentialApiUrls).slice(0, 5), for each page
ProbeUrls ==
  [page \in Pages |->
     LET doc == Document(page)
         fromScripts == Flatten([k \in 1..Len(doc.inlineScripts) |-> doc.inlineScripts[k].apis])
     IN  Slice0(SetAddAll(<<>>, ResolveAll(RootUrl(page), fromScripts \o CommonEndpoints)),
                MaxProbes)]

\* AfterLoop with the completing update made before the payload probe
AfterLoopCompletesFirst(id, f) ==
  IF f.p.includePayloads
  THEN IssueProbe(id, Frame(updateExtractionResult(f.store, id, [status |-> "completed"]),
                            [f.p EXCEPT !.apiUrls = ProbeUrls[f.p.page]], f.gets), 1)
  ELSE Complete(id, f)

\* AfterLoop without its test of includePayloads
AfterLoopAlwaysProbes(id, f) ==
  IssueProbe(id, Frame(f.store, [f.p EXCEPT !.apiUrls = ProbeUrls[f.p.page]], f.gets), 1)

\* AfterLoop with the probe loop started but not awaited
AfterLoopUnawaited(id, f) ==
  IF f.p.includePayloads
  THEN Complete(id, IssueProbe(id, Frame(f.store, [f.p EXCEPT !.apiUrls = ProbeUrls[f.p.page]],
                                         f.gets), 1))
  ELSE Complete(id, f)

\* after the batch loop: the payload probe when asked for, then completion
AfterLoop(id, f) ==
  IF f.p.includePayloads
  THEN IssueProbe(id, Frame(f.store, [f.p EXCEPT !.apiUrls = ProbeUrls[f.p.page]], f.gets), 1)
  ELSE Complete(id, f)

\* the batch loop with the rest of the array as one batch
EnterLoopWholeArray(id, f, i) ==
  LET array == LoopArray(f.p) IN
  IF i < Len(array) THEN
    LET batch   == SubSeq(array, i + 1, Len(array))
        fetched == SelectSeq(batch, LAMBDA u : ~SkipsFetch(u))
    IN  Frame(f.store,
              [f.p EXCEPT !.pc = "batch", !.i = i,
                          !.members = [k \in 1..Len(batch) |->
                                         IF SkipsFetch(batch[k]) THEN "settled"
                                         ELSE "inflight"]],
              f.gets \o [k \in 1..Len(fetched) |->
                           Get(fetched[k], "asset", (i \div batchSize) + 1)])
  ELSE AfterLoop(id, f)

\* the head of the batch loop at index i
EnterLoop(id, f, i) ==
  LET array == LoopArray(f.p) IN
  IF i < Len(array) THEN
    LET batch   == SubSeq(array, i + 1, Min(i + batchSize, Len(array)))
        fetched == SelectSeq(batch, LAMBDA u : ~SkipsFetch(u))
    IN  Frame(f.store,
              [f.p EXCEPT !.pc = "batch", !.i = i,
                          !.members = [k \in 1..Len(batch) |->
                                         IF SkipsFetch(batch[k]) THEN "settled"
                                         ELSE "inflight"]],
              f.gets \o [k \in 1..Len(fetched) |->
                           Get(fetched[k], "asset", (i \div batchSize) + 1)])
  ELSE AfterLoop(id, f)

\* the URLs the scan of a fetched stylesheet adds to `assets`
CssReferences(assetUrl, body) ==
  ResolveAll(assetUrl, SelectSeq(body.imports, NotData) \o SelectSeq(body.urls, NotData))

\* the URL of member k of the current batch
MemberUrl(p, k) == LoopArray(p)[p.i + k]

(***************************************************************************)
(* GET /api/extract/:id/download: the archive built from a completed       *)
(* result.  zip.file(path, content) adds the entry of that path or         *)
(* replaces the one the archive already holds, so the file entries of the  *)
(* archive are a map from path to the content added last under it.         *)
(***************************************************************************)
Archive(files) ==
  [path \in {files[k].path : k \in 1..Len(files)} |->
     LET last == CHOOSE k \in 1..Len(files) :
                   /\ files[k].path = path
                   /\ \A j \in (k + 1)..Len(files) : files[j].path # path
     IN  files[last].content]

(***************************************************************************)
(* Actions.                                                                *)
(***************************************************************************)
Init ==
  /\ extractions = <<>>
  /\ proc = <<>>
  /\ gets = <<>>
  /\ sent = <<>>
  /\ reply = NoReply

\* the frame f becomes the state of extraction id
Becomes(id, f) ==
  /\ extractions' = f.store
  /\ proc' = [proc EXCEPT ![id] = f.p]
  /\ gets' = [gets EXCEPT ![id] = f.gets]

\* POST /api/extract up to the end of `await storage.createExtractionResult`,
\* while fewer than max requests have been accepted
Accept(req, max) ==
  LET id == Cardinality(DOMAIN extractions) + 1 IN
  /\ id <= max
  /\ extractions' = createExtractionResult(extractions, id, RootUrl(req.page))
  /\ proc' = proc @@ (id :> NewProc(req))
  /\ gets' = gets @@ (id :> <<>>)
  /\ UNCHANGED <<sent, reply>>

PostExtract(req) == Accept(req, MaxExtractions)

\* CallExtract without the update to processing
CallExtractKeepsPending(id) ==
  /\ proc[id].pc = "created"
  /\ proc' = [proc EXCEPT ![id].pc = "updating"]
  /\ sent' = sent @@ (id :> extractions[id])
  /\ UNCHANGED <<extractions, gets, reply>>

\* CallExtract answering with the record as it is stored after the call
CallExtractAnswersStored(id) ==
  /\ proc[id].pc = "created"
  /\ extractions' = updateExtractionResult(extractions, id, [status |-> "processing"])
  /\ proc' = [proc EXCEPT ![id].pc = "updating"]
  /\ sent' = sent @@ (id :> extractions'[id])
  /\ UNCHANGED <<gets, reply>>

\* the handler calls extractWebsiteFiles, which runs up to its first await,
\* attaches the catch handler and answers with the record create returned
CallExtract(id) ==
  /\ proc[id].pc = "created"
  /\ extractions' = updateExtractionResult(extractions, id, [status |-> "processing"])
  /\ proc' = [proc EXCEPT ![id].pc = "updating"]
  /\ sent' = sent @@ (id :> extractions[id])
  /\ UNCHANGED <<gets, reply>>

\* axios.get(url) for the root page is issued
FetchRoot(id) ==
  /\ proc[id].pc = "updating"
  /\ proc' = [proc EXCEPT ![id].pc = "root"]
  /\ gets' = [gets EXCEPT ![id] = Append(@, Get(RootUrl(proc[id].page), "root", 0))]
  /\ UNCHANGED <<extractions, sent, reply>>

\* the root GET rejects: the error is rethrown and the function's promise rejects
RootFails(id, message) ==
  /\ proc[id].pc = "root"
  /\ proc' = [proc EXCEPT ![id].pc = "rejected", ![id].error = message]
  /\ gets' = [gets EXCEPT ![id] = Mark(@, RootUrl(proc[id].page), "root", "failed")]
  /\ UNCHANGED <<extractions, sent, reply>>

\* the catch handler storing the status alone
CatchHandlerDropsError(id) ==
  /\ proc[id].pc = "rejected"
  /\ extractions' = updateExtractionResult(extractions, id, [status |-> "failed"])
  /\ proc' = [proc EXCEPT ![id].pc = "failed"]
  /\ UNCHANGED <<gets, sent, reply>>

\* the catch handler storing the error while the status stays as it is
CatchHandlerKeepsStatus(id) ==
  /\ proc[id].pc = "rejected"
  /\ extractions' = updateExtractionResult(extractions, id, [error |-> proc[id].error])
  /\ proc' = [proc EXCEPT ![id].pc = "failed"]
  /\ UNCHANGED <<gets, sent, reply>>

\* the catch handler attached by POST /api/extract
CatchHandler(id) ==
  /\ proc[id].pc = "rejected"
  /\ extractions' = updateExtractionResult(extractions, id,
                      [status |-> "failed", error |-> proc[id].error])
  /\ proc' = [proc EXCEPT ![id].pc = "failed"]
  /\ UNCHANGED <<gets, sent, reply>>

\* RootAnswers with the source page added before the inline files
RootAnswersSourceFirst(id) ==
  /\ proc[id].pc = "root"
  /\ LET p      == proc[id]
         doc    == Document(p.page)
         assets == ScannedAssets[p.page]
         issued == Mark(gets[id], RootUrl(p.page), "root", "settled")
     IN  \E sourced \in {IF p.includeSourcePage
                          THEN addFileToExtraction(extractions, id,
                                 SourceFile(extractions, id, doc.text))
                          ELSE extractions} :
         \E scripted \in {AddInlineScripts(sourced, id, doc.inlineScripts)} :
         \E inlined \in {AddInlineStyles(scripted, id, doc.styles)} :
           IF p.includeSourcePage
           THEN Becomes(id, Frame(inlined, [p EXCEPT !.pc = "source", !.assets = assets], issued))
           ELSE Becomes(id, EnterLoop(id, Frame(inlined,
                                  [p EXCEPT !.assets = assets, !.assetArray = assets], issued), 0))
  /\ UNCHANGED <<sent, reply>>

\* RootAnswers appending the source page whatever includeSourcePage is
RootAnswersAlwaysSource(id) ==
  /\ proc[id].pc = "root"
  /\ LET p      == proc[id]
         doc    == Document(p.page)
         assets == ScannedAssets[p.page]
         issued == Mark(gets[id], RootUrl(p.page), "root", "settled")
     IN  \E scripted \in {AddInlineScripts(extractions, id, doc.inlineScripts)} :
         \E inlined \in {AddInlineStyles(scripted, id, doc.styles)} :
           Becomes(id, Frame(addFileToExtraction(inlined, id, SourceFile(inlined, id, doc.text)),
                             [p EXCEPT !.pc = "source", !.assets = assets], issued))
  /\ UNCHANGED <<sent, reply>>

\* the root GET answers 2xx: the scan, the inline files, the source page
RootAnswers(id) ==
  /\ proc[id].pc = "root"
  /\ LET p      == proc[id]
         doc    == Document(p.page)
         assets == ScannedAssets[p.page]
         issued == Mark(gets[id], RootUrl(p.page), "root", "settled")
     IN  \E scripted \in {AddInlineScripts(extractions, id, doc.inlineScripts)} :
         \E inlined \in {AddInlineStyles(scripted, id, doc.styles)} :
           IF p.includeSourcePage
           THEN Becomes(id, Frame(addFileToExtraction(inlined, id, SourceFile(inlined, id, doc.text)),
                                  [p EXCEPT !.pc = "source", !.assets = assets], issued))
           ELSE Becomes(id, EnterLoop(id, Frame(inlined,
                                  [p EXCEPT !.assets = assets, !.assetArray = assets], issued), 0))
  /\ UNCHANGED <<sent, reply>>

\* after `await storage.addFileToExtraction(extractionId, sourceFile)`
AfterSource(id) ==
  /\ proc[id].pc = "source"
  /\ Becomes(id, EnterLoop(id, Frame(extractions,
                   [proc[id] EXCEPT !.assetArray = proc[id].assets], gets[id]), 0))
  /\ UNCHANGED <<sent, reply>>

\* a batch member without its try/catch under Promise.all: the failure of
\* one GET rejects the whole function
AssetFailsRejects(id, k, error) ==
  /\ proc[id].pc = "batch"
  /\ k \in 1..Len(proc[id].members)
  /\ proc[id].members[k] = "inflight"
  /\ proc' = [proc EXCEPT ![id].pc = "rejected", ![id].error = error]
  /\ gets' = [gets EXCEPT ![id] = Mark(@, MemberUrl(proc[id], k), "asset", "failed")]
  /\ UNCHANGED <<extractions, sent, reply>>

\* the GET of member k of the current batch fails: logged, the member returns
AssetFails(id, k, error) ==
  /\ proc[id].pc = "batch"
  /\ k \in 1..Len(proc[id].members)
  /\ proc[id].members[k] = "inflight"
  /\ proc' = [proc EXCEPT ![id].members[k] = "settled"]
  /\ gets' = [gets EXCEPT ![id] = Mark(@, MemberUrl(proc[id], k), "asset", "failed")]
  /\ UNCHANGED <<extractions, sent, reply>>

\* a member that read the record when its batch started and writes back
\* that copy with its own file appended
AssetAnswersStale(id, k) ==
  /\ proc[id].pc = "batch"
  /\ k \in 1..Len(proc[id].members)
  /\ proc[id].members[k] = "inflight"
  /\ Answers(MemberUrl(proc[id], k))
  /\ LET assetUrl == MemberUrl(proc[id], k)
         mine     == {j \in 1..Len(gets[id]) :
                        /\ gets[id][j].kind = "asset"
                        /\ gets[id][j].batch = (proc[id].i \div batchSize) + 1
                        /\ gets[id][j].state \in {"answered", "settled"}}
         read     == [extractions EXCEPT ![id].files =
                        SubSeq(@, 1, Len(@) - Cardinality(mine))]
     IN
     /\ extractions' = addFileToExtraction(read, id,
                         AssetFile(extractions, id, assetUrl, AssetBody(assetUrl)))
     /\ gets' = [gets EXCEPT ![id] = Mark(@, assetUrl, "asset", "answered")]
  /\ proc' = [proc EXCEPT ![id].members[k] = "added"]
  /\ UNCHANGED <<sent, reply>>

\* the GET of member k answers 2xx: its file is built and appended
AssetAnswers(id, k) ==
  /\ proc[id].pc = "batch"
  /\ k \in 1..Len(proc[id].members)
  /\ proc[id].members[k] = "inflight"
  /\ Answers(MemberUrl(proc[id], k))
  /\ LET assetUrl == MemberUrl(proc[id], k) IN
     /\ extractions' = addFileToExtraction(extractions, id,
                         AssetFile(extractions, id, assetUrl, AssetBody(assetUrl)))
     /\ gets' = [gets EXCEPT ![id] = Mark(@, assetUrl, "asset", "answered")]
  /\ proc' = [proc EXCEPT ![id].members[k] = "added"]
  /\ UNCHANGED <<sent, reply>>

\* member k after `await storage.addFileToExtraction`: the CSS scan
AssetScanned(id, k) ==
  /\ proc[id].pc = "batch"
  /\ k \in 1..Len(proc[id].members)
  /\ proc[id].members[k] = "added"
  /\ LET assetUrl == MemberUrl(proc[id], k)
         fileName == AssetFileName(assetUrl)
         scans    == getFileType(fileName) = "css" /\ ~IsBinary(fileName)
     IN  /\ proc' = [proc EXCEPT
                       ![id].members[k] = "settled",
                       ![id].assets = IF scans
                                      THEN SetAddAll(@, CssReferences(assetUrl, AssetBody(assetUrl)))
                                      ELSE @]
         /\ gets' = [gets EXCEPT ![id] = Mark(@, assetUrl, "asset", "settled")]
  /\ UNCHANGED <<extractions, sent, reply>>

\* Promise.allSettled of the current batch is fulfilled: the next batch
BatchSettled(id) ==
  /\ proc[id].pc = "batch"
  /\ AllSettled(proc[id].members)
  /\ Becomes(id, EnterLoop(id, Frame(extractions, [proc[id] EXCEPT !.members = <<>>], gets[id]),
                           proc[id].i + batchSize))
  /\ UNCHANGED <<sent, reply>>

\* a probe without its try/catch: the failure of its GET rejects the function
ProbeFailsRejects(id) ==
  /\ proc[id].pc = "probe"
  /\ proc' = [proc EXCEPT ![id].pc = "rejected", ![id].error = "Network Error"]
  /\ gets' = [gets EXCEPT ![id] = Mark(@, proc[id].apiUrls[proc[id].probe], "probe", "failed")]
  /\ UNCHANGED <<extractions, sent, reply>>

\* the current probe GET fails: ignored, the loop goes on
ProbeFails(id) ==
  /\ proc[id].pc = "probe"
  /\ LET url == proc[id].apiUrls[proc[id].probe] IN
     Becomes(id, IssueProbe(id, Frame(extractions, proc[id], Mark(gets[id], url, "probe", "failed")),
                            proc[id].probe + 1))
  /\ UNCHANGED <<sent, reply>>

\* the current probe GET answers 2xx
ProbeAnswers(id) ==
  /\ proc[id].pc = "probe"
  /\ LET p      == proc[id]
         url    == p.apiUrls[p.probe]
         answer == ApiAnswer(url)
         issued == Mark(gets[id], url, "probe", "settled")
     IN  /\ HasEndpoint(url)
         /\ IF IncludesJson(answer.ctype)
            THEN Becomes(id, Frame(addFileToExtraction(extractions, id,
                                     PayloadFile(extractions, id, url, answer, p.payloadCount + 1)),
                                   [p EXCEPT !.pc = "payload", !.payloadCount = @ + 1], issued))
            ELSE Becomes(id, IssueProbe(id, Frame(extractions, p, issued), p.probe + 1))
  /\ UNCHANGED <<sent, reply>>

\* after `await storage.addFileToExtraction(extractionId, file)` of a payload
AfterPayload(id) ==
  /\ proc[id].pc = "payload"
  /\ Becomes(id, IssueProbe(id, Frame(extractions, proc[id], gets[id]), proc[id].probe + 1))
  /\ UNCHANGED <<sent, reply>>

\* after the await of the completing update: the function returns
Return(id) ==
  /\ proc[id].pc = "completing"
  /\ proc' = [proc EXCEPT ![id].pc = "done"]
  /\ UNCHANGED <<extractions, gets, sent, reply>>

Next ==
  \/ \E req \in Requests : PostExtract(req)
  \/ \E id \in DOMAIN proc : CallExtract(id)
  \/ \E id \in DOMAIN proc : FetchRoot(id)
  \/ \E id \in DOMAIN proc : \E message \in RootErrors : RootFails(id, message)
  \/ \E id \in DOMAIN proc : CatchHandler(id)
  \/ \E id \in DOMAIN proc : RootAnswers(id)
  \/ \E id \in DOMAIN proc : AfterSource(id)
  \/ \E id \in DOMAIN proc : \E k \in 1..batchSize :
       \E error \in AssetErrors : AssetFails(id, k, error)
  \/ \E id \in DOMAIN proc : \E k \in 1..batchSize : AssetAnswers(id, k)
  \/ \E id \in DOMAIN proc : \E k \in 1..batchSize : AssetScanned(id, k)
  \/ \E id \in DOMAIN proc : BatchSettled(id)
  \/ \E id \in DOMAIN proc : ProbeFails(id)
  \/ \E id \in DOMAIN proc : ProbeAnswers(id)
  \/ \E id \in DOMAIN proc : AfterPayload(id)
  \/ \E id \in DOMAIN proc : Return(id)

Spec == Init /\ [][Next]_vars

(***************************************************************************)
(* The event loop runs every continuation that is ready, and every request *)
(* issued ends (axios rejects at its timeout at the latest): each started  *)
(* extraction keeps taking steps while it has one to take.                 *)
(***************************************************************************)
Run(id) ==
  /\ id \in DOMAIN proc
  /\ \/ CallExtract(id)
     \/ FetchRoot(id)
     \/ \E message \in RootErrors : RootFails(id, message)
     \/ CatchHandler(id)
     \/ RootAnswers(id)
     \/ AfterSource(id)
     \/ \E k \in 1..batchSize : \E error \in AssetErrors : AssetFails(id, k, error)
     \/ \E k \in 1..batchSize : AssetAnswers(id, k)
     \/ \E k \in 1..batchSize : AssetScanned(id, k)
     \/ BatchSettled(id)
     \/ ProbeFails(id)
     \/ ProbeAnswers(id)
     \/ AfterPayload(id)
     \/ Return(id)

FairSpec == Spec /\ \A id \in 1..MaxExtractions : WF_vars(Run(id))

(***************************************************************************)
(* The pipeline on the page with eleven images, for a client that starts   *)
(* an extraction when the one before has ended.                            *)
(***************************************************************************)
WidePost(req) ==
  /\ \A id \in DOMAIN proc : proc[id].pc \in {"done", "failed"}
  /\ PostExtract(req)

WideNext ==
  \/ \E req \in WideRequests : WidePost(req)
  \/ \E id \in DOMAIN proc : CallExtract(id)
  \/ \E id \in DOMAIN proc : FetchRoot(id)
  \/ \E id \in DOMAIN proc : \E message \in RootErrors : RootFails(id, message)
  \/ \E id \in DOMAIN proc : CatchHandler(id)
  \/ \E id \in DOMAIN proc : RootAnswers(id)
  \/ \E id \in DOMAIN proc : AfterSource(id)
  \/ \E id \in DOMAIN proc : \E k \in 1..batchSize :
       \E error \in AssetErrors : AssetFails(id, k, error)
  \/ \E id \in DOMAIN proc : \E k \in 1..batchSize : AssetAnswers(id, k)
  \/ \E id \in DOMAIN proc : \E k \in 1..batchSize : AssetScanned(id, k)
  \/ \E id \in DOMAIN proc : BatchSettled(id)
  \/ \E id \in DOMAIN proc : ProbeFails(id)
  \/ \E id \in DOMAIN proc : ProbeAnswers(id)
  \/ \E id \in DOMAIN proc : AfterPayload(id)
  \/ \E id \in DOMAIN proc : Return(id)

WideSpec == Init /\ [][WideNext]_vars

(***************************************************************************)
(* The standalone server: its own `extractions` map, helpers and           *)
(* extractWebsiteFiles.  It works on the stored object itself              *)
(* (extraction.status = ..., extraction.files.push(file)) and fetches the  *)
(* assets one after the other, as buffers.  The variables stand for the    *)
(* same things as above: extractions is its map, proc its run, with        *)
(* assetArray holding validAssets and i the number of assets gone through. *)
(***************************************************************************)
\* `null`, what the server's resolveUrl returns when new URL throws
Null == Str("", "", <<>>, "null", 0)

ServerResolveUrl(base, relative) ==
  IF relative.form = "bad" \/ (relative.form # "abs" /\ ~IsAbsoluteUrl(base))
  THEN Null
  ELSE resolveUrl(base, relative)

\* new URL(url).pathname
PathName(u) == (IF u.host # "" THEN "/" ELSE "") \o RelString(u.segs)

\* pathname.split('.').pop()?.toLowerCase() || '' (the directories of the
\* URLs of the model hold no dot)
getFileExtension(url) ==
  IF ~IsAbsoluteUrl(url) THEN ""
  ELSE IF Len(Last(url.segs)) > 1 THEN ToLowerCase(Last(Last(url.segs)))
  ELSE ToLowerCase(PathName(url))

\* mimeType.includes(part), on the content types of the model
Includes(mimeType, part) ==
  <<mimeType, part>> \in
    {<<"text/html", "text/html">>, <<"text/css", "text/css">>,
     <<"application/javascript", "javascript">>, <<"text/javascript", "javascript">>,
     <<"image/png", "image/">>, <<"image/gif", "image/">>,
     <<"image/x-png", "image/">>,
     <<"font/woff", "font/">>}

ServerGetFileType(url, mimeType) ==
  LET ext == getFileExtension(url) IN
  CASE mimeType # "" /\ Includes(mimeType, "text/html") -> "html"
    [] mimeType # "" /\ Includes(mimeType, "text/css") -> "css"
    [] mimeType # "" /\ Includes(mimeType, "javascript") -> "js"
    [] mimeType # "" /\ Includes(mimeType, "image/") -> "image"
    [] mimeType # "" /\ Includes(mimeType, "font/") -> "font"
    [] ext \in {"html", "htm"} -> "html"
    [] ext = "css" -> "css"
    [] ext \in {"js", "mjs", "jsx", "ts", "tsx"} -> "js"
    [] ext \in {"png", "jpg", "jpeg", "gif", "svg", "webp", "ico"} -> "image"
    [] ext \in {"woff", "woff2", "ttf", "eot", "otf"} -> "font"
    [] ext = "json" -> "json"
    [] ext = "xml" -> "xml"
    [] OTHER -> "other"

\* the table of the server's getMimeType; "" where it holds no entry
mimeTypes(key) ==
  CASE key = "html" -> "text/html"
    [] key = "css" -> "text/css"
    [] key = "js" -> "application/javascript"
    [] key = "json" -> "application/json"
    [] key = "xml" -> "application/xml"
    [] key = "png" -> "image/png"
    [] key \in {"jpg", "jpeg"} -> "image/jpeg"
    [] key = "gif" -> "image/gif"
    [] key = "svg" -> "image/svg+xml"
    [] key = "webp" -> "image/webp"
    [] key = "ico" -> "image/x-icon"
    [] key = "woff" -> "font/woff"
    [] key = "woff2" -> "font/woff2"
    [] key = "ttf" -> "font/ttf"
    [] key = "eot" -> "application/vnd.ms-fontobject"
    [] key = "otf" -> "font/otf"
    [] OTHER -> ""

ServerGetMimeType(url, type) ==
  IF mimeTypes(getFileExtension(url)) # "" THEN mimeTypes(getFileExtension(url))
  ELSE IF mimeTypes(type) # "" THEN mimeTypes(type)
  ELSE "application/octet-stream"

\* a response body read with responseType 'arraybuffer': a Buffer, of the
\* bytes of the body or of the characters of its text
BufferContent(body) == [kind |-> "buffer", text |-> body.text, bytes |-> body.bytes]

\* Buffer.length
BufferLength(content) == Len(content.text) + Len(content.bytes)

\* a Buffer is an object, so `!content` is false, and Buffer.isBuffer
\* answers true on both of the paths a non-string content can take
isValidContent(content, url) ==
  IF ServerGetFileType(url, "") \in {"image", "font"}
  THEN content.kind = "buffer"
  ELSE content.kind = "buffer"

\* the folder of the server's asset files
ServerFolder(assetType) ==
  CASE assetType = "css" -> "css"
    [] assetType = "js" -> "js"
    [] assetType = "image" -> "images"
    [] assetType = "font" -> "fonts"
    [] OTHER -> "assets"

\* extraction.files.push(file): the totals stay as they are
Push(store, id, file) == [store EXCEPT ![id].files = Append(@, file)]

ServerAssetFile(store, id, assetUrl, body) ==
  LET assetContent == BufferContent(body)
      assetType    == ServerGetFileType(assetUrl, body.ctype)
      fileName     == IF Last(assetUrl.segs) = EmptyName
                      THEN "asset-" \o Random8(store, id)
                      ELSE NameString(Last(assetUrl.segs))
  IN  File(FreshId(store, id), fileName, ServerFolder(assetType) \o "/" \o fileName,
           assetType, BufferLength(assetContent), assetContent,
           ServerGetMimeType(assetUrl, assetType))

RECURSIVE PushInlineScripts(_, _, _)
PushInlineScripts(store, id, scripts) ==
  IF scripts = <<>> THEN store
  ELSE PushInlineScripts(
         IF NonBlank(Head(scripts).text)
         THEN Push(store, id, InlineScriptFile(store, id, Head(scripts).text))
         ELSE store,
         id, Tail(scripts))

RECURSIVE PushInlineStyles(_, _, _)
PushInlineStyles(store, id, styles) ==
  IF styles = <<>> THEN store
  ELSE PushInlineStyles(
         IF NonBlank(Head(styles))
         THEN Push(store, id, InlineStyleFile(store, id, Head(styles)))
         ELSE store,
         id, Tail(styles))

\* what the server's scan adds to `assets`, in order
ServerScannedReferences(doc) ==
  LET links == SelectSeq(doc.links, AssetLink) IN
  doc.stylesheets \o doc.scripts \o doc.imgs \o [k \in 1..Len(links) |-> links[k].href]

\* Array.from(assets).filter(asset => asset && !asset.startsWith('data:')),
\* for each page
ValidAssets ==
  [page \in Pages |->
     LET refs == ServerScannedReferences(Document(page))
         assets == SetAddAll(<<>>, [k \in 1..Len(refs) |->
                                      ServerResolveUrl(RootUrl(page), refs[k])])
     IN  SelectSeq(assets, LAMBDA u : u # Null /\ Length(u) > 0 /\ ~StartsWithData(u))]

\* the end of the run: status, then the totals
ServerComplete(store, id) ==
  [store EXCEPT ![id] = [@ EXCEPT !.status = "completed",
                                  !.totalFiles = Len(store[id].files),
                                  !.totalSize = SumSizes(store[id].files)]]

\* the asset loop without its test of includePayloads
ServerNextAssetUngated(id, f, n) ==
  IF n < Len(f.p.assetArray)
  THEN Frame(f.store, [f.p EXCEPT !.pc = "asset", !.i = n],
             Append(f.gets, Get(f.p.assetArray[n + 1], "asset", 0)))
  ELSE Frame([f.store EXCEPT ![id] = [@ EXCEPT !.status = "completed",
                                               !.totalFiles = Len(f.store[id].files),
                                               !.totalSize = SumSizes(f.store[id].files)]],
             [f.p EXCEPT !.pc = "done", !.i = n], f.gets)

\* the head of the asset loop after n assets: the next GET, or the end
ServerNextAsset(id, f, n) ==
  IF f.p.includePayloads /\ n < Len(f.p.assetArray)
  THEN Frame(f.store, [f.p EXCEPT !.pc = "asset", !.i = n],
             Append(f.gets, Get(f.p.assetArray[n + 1], "asset", 0)))
  ELSE Frame(ServerComplete(f.store, id), [f.p EXCEPT !.pc = "done", !.i = n], f.gets)

\* POST /api/extract of the server: the record is stored, extractWebsiteFiles
\* runs up to its first await (the root GET) on the stored object, and the
\* handler answers with that object
ServerPost(req) ==
  LET id == Cardinality(DOMAIN extractions) + 1 IN
  /\ id <= MaxExtractions
  /\ extractions' = [createExtractionResult(extractions, id, RootUrl(req.page))
                       EXCEPT ![id].status = "processing"]
  /\ proc' = proc @@ (id :> [NewProc(req) EXCEPT !.pc = "root"])
  /\ gets' = gets @@ (id :> <<Get(RootUrl(req.page), "root", 0)>>)
  /\ sent' = sent @@ (id :> extractions'[id])
  /\ UNCHANGED reply

\* the root GET rejects: the catch block of extractWebsiteFiles
ServerRootFails(id, message) ==
  /\ proc[id].pc = "root"
  /\ extractions' = [extractions EXCEPT ![id] = Merge(@, [status |-> "failed", error |-> message])]
  /\ proc' = [proc EXCEPT ![id].pc = "failed", ![id].error = message]
  /\ gets' = [gets EXCEPT ![id] = Mark(@, RootUrl(proc[id].page), "root", "failed")]
  /\ UNCHANGED <<sent, reply>>

\* the root GET answers 2xx: the scan, the inline files, the source page
\* and the first asset GET
ServerRootAnswers(id) ==
  /\ proc[id].pc = "root"
  /\ LET p      == proc[id]
         doc    == Document(p.page)
         issued == Mark(gets[id], RootUrl(p.page), "root", "settled")
     IN  \E scripted \in {PushInlineScripts(extractions, id, doc.inlineScripts)} :
         \E inlined \in {PushInlineStyles(scripted, id, doc.styles)} :
         \E sourced \in {IF p.includeSourcePage
                          THEN Push(inlined, id, SourceFile(inlined, id, doc.text))
                          ELSE inlined} :
           Becomes(id, ServerNextAsset(id, Frame(sourced,
                         [p EXCEPT !.assetArray = ValidAssets[p.page]], issued), 0))
  /\ UNCHANGED <<sent, reply>>

\* the GET of the current asset fails: logged, the loop goes on
ServerAssetFails(id) ==
  /\ proc[id].pc = "asset"
  /\ LET url == proc[id].assetArray[proc[id].i + 1] IN
     Becomes(id, ServerNextAsset(id, Frame(extractions, proc[id],
                                          Mark(gets[id], url, "asset", "failed")),
                                 proc[id].i + 1))
  /\ UNCHANGED <<sent, reply>>

\* the GET of the current asset answers 2xx: its file is pushed
ServerAssetAnswers(id) ==
  /\ proc[id].pc = "asset"
  /\ LET url  == proc[id].assetArray[proc[id].i + 1]
         body == AssetBody(url)
     IN  /\ Answers(url)
         /\ Becomes(id, ServerNextAsset(id,
               Frame(IF isValidContent(BufferContent(body), url)
                     THEN Push(extractions, id, ServerAssetFile(extractions, id, url, body))
                     ELSE extractions,
                     proc[id], Mark(gets[id], url, "asset", "settled")),
               proc[id].i + 1))
  /\ UNCHANGED <<sent, reply>>

ServerNext ==
  \/ \E req \in Requests : ServerPost(req)
  \/ \E id \in DOMAIN proc : \E message \in RootErrors : ServerRootFails(id, message)
  \/ \E id \in DOMAIN proc : ServerRootAnswers(id)
  \/ \E id \in DOMAIN proc : ServerAssetFails(id)
  \/ \E id \in DOMAIN proc : ServerAssetAnswers(id)

ServerSpec == Init /\ [][ServerNext]_vars

(***************************************************************************)
(* The read handlers of routes.ts, GET /api/extract/:id and                *)
(* GET /api/extract/:id/download, next to extractions of the page without  *)
(* assets.  A handler reads the stored record once; what it answers is     *)
(* decided by that read, so each is one step.  An id that no POST has      *)
(* returned stands for any string a client may send.                       *)
(***************************************************************************)
ReadRequests ==
  [page : {"app"}, includePayloads : {FALSE}, includeSourcePage : BOOLEAN]

\* what Map.get returns for a key it does not hold
Undefined == [undefined |-> TRUE]

getExtractionResult(store, id) ==
  IF id \in DOMAIN store THEN store[id] ELSE Undefined

\* res.status(code).json({ message })
Refusal(op, id, code, message) ==
  [op |-> op, id |-> id, code |-> code, body |-> [message |-> message]]

\* GET /api/extract/:id
GetStatus(id) ==
  /\ LET extraction == getExtractionResult(extractions, id) IN
     reply' = IF extraction = Undefined
              THEN Refusal("status", id, 404, "Extraction not found")
              ELSE [op |-> "status", id |-> id, code |-> 200, body |-> extraction]
  /\ UNCHANGED <<extractions, proc, gets, sent>>

\* the archive sent with its Content-Disposition file name
ZipAnswer(id, extraction) ==
  [op |-> "download", id |-> id, code |-> 200,
   body |-> [filename |-> extraction.url.host \o "-sources.zip",
             zip |-> Archive(extraction.files)]]

\* the download handler without its test of the status
DownloadAnyStatus(id) ==
  /\ LET extraction == getExtractionResult(extractions, id) IN
     reply' = IF extraction = Undefined
              THEN Refusal("download", id, 404, "Extraction not found")
              ELSE ZipAnswer(id, extraction)
  /\ UNCHANGED <<extractions, proc, gets, sent>>

\* GET /api/extract/:id/download
Download(id) ==
  /\ LET extraction == getExtractionResult(extractions, id) IN
     reply' = IF extraction = Undefined
              THEN Refusal("download", id, 404, "Extraction not found")
              ELSE IF extraction.status # "completed"
              THEN Refusal("download", id, 400, "Extraction not completed")
              ELSE ZipAnswer(id, extraction)
  /\ UNCHANGED <<extractions, proc, gets, sent>>

ReadNext ==
  \/ \E req \in ReadRequests : PostExtract(req)
  \/ \E id \in DOMAIN proc : CallExtract(id)
  \/ \E id \in DOMAIN proc : FetchRoot(id)
  \/ \E id \in DOMAIN proc : \E message \in RootErrors : RootFails(id, message)
  \/ \E id \in DOMAIN proc : CatchHandler(id)
  \/ \E id \in DOMAIN proc : RootAnswers(id)
  \/ \E id \in DOMAIN proc : AfterSource(id)
  \/ \E id \in DOMAIN proc : Return(id)
  \/ \E id \in 1..(MaxExtractions + 1) : GetStatus(id)
  \/ \E id \in 1..(MaxExtractions + 1) : Download(id)

ReadSpec == Init /\ [][ReadNext]_vars

(***************************************************************************)
(* The page of home.tsx as a client: it takes the id from the start        *)
(* response, queries GET /api/extract/:id, and refetches while the data of *)
(* the query has status processing.  reply is the data of its query.       *)
(***************************************************************************)
\* the query fetches: the first time for an id, or at the refetch interval
Refetches(id) ==
  IF reply.op # "status" THEN TRUE
  ELSE IF reply.id # id THEN TRUE
  ELSE reply.code = 200 /\ reply.body.status = "processing"

\* a client querying an id it has not been sent
ClientPollAnyId(id) ==
  /\ id \in DOMAIN extractions
  /\ Refetches(id)
  /\ GetStatus(id)

\* useQuery with enabled: !!currentExtraction and the refetchInterval
ClientPoll(id) ==
  /\ id \in DOMAIN sent
  /\ Refetches(id)
  /\ GetStatus(id)

\* the extractions the page starts: the page with script text, any options
PollRequests ==
  [page : {"app"}, includePayloads : BOOLEAN, includeSourcePage : BOOLEAN]

PollNext ==
  \/ \E req \in PollRequests : PostExtract(req)
  \/ \E id \in DOMAIN proc : CallExtract(id)
  \/ \E id \in DOMAIN proc : FetchRoot(id)
  \/ \E id \in DOMAIN proc : \E message \in RootErrors : RootFails(id, message)
  \/ \E id \in DOMAIN proc : CatchHandler(id)
  \/ \E id \in DOMAIN proc : RootAnswers(id)
  \/ \E id \in DOMAIN proc : AfterSource(id)
  \/ \E id \in DOMAIN proc : ProbeFails(id)
  \/ \E id \in DOMAIN proc : ProbeAnswers(id)
  \/ \E id \in DOMAIN proc : AfterPayload(id)
  \/ \E id \in DOMAIN proc : Return(id)
  \/ \E id \in 1..MaxExtractions : ClientPoll(id)

PollSpec == Init /\ [][PollNext]_vars

\* every run keeps taking steps, and the timer of the query fires
PollFairSpec ==
  /\ PollSpec
  /\ \A id \in 1..MaxExtractions : WF_vars(Run(id)) /\ WF_vars(ClientPoll(id))

(***************************************************************************)
(* Several extractions of the page without assets side by side: the steps  *)
(* of their runs interleave in every order.                                *)
(***************************************************************************)
PairPost(req) == Accept(req, MaxConcurrent)

PairNext ==
  \/ \E req \in ReadRequests : PairPost(req)
  \/ \E id \in DOMAIN proc : CallExtract(id)
  \/ \E id \in DOMAIN proc : FetchRoot(id)
  \/ \E id \in DOMAIN proc : \E message \in RootErrors : RootFails(id, message)
  \/ \E id \in DOMAIN proc : CatchHandler(id)
  \/ \E id \in DOMAIN proc : RootAnswers(id)
  \/ \E id \in DOMAIN proc : AfterSource(id)
  \/ \E id \in DOMAIN proc : Return(id)

PairSpec == Init /\ [][PairNext]_vars

(***************************************************************************)
(* MemStorage called directly, with ids it holds and ids it does not.      *)
(* reply is what the call returned, or the Error it threw.                 *)
(***************************************************************************)
\* `if (!existing) throw new Error("Extraction not found")`
Throws(store, id) == getExtractionResult(store, id) = Undefined

Returned(op, id, value) ==
  [op |-> op, id |-> id, outcome |-> "returned", value |-> value]

Thrown(op, id) ==
  [op |-> op, id |-> id, outcome |-> "thrown",
   value |-> [message |-> "Extraction not found"]]

StoreUpdates ==
  {[status |-> "processing"], [status |-> "completed"],
   [status |-> "failed", error |-> "Network Error"]}

\* the files a caller appends
StoreFiles ==
  {[id |-> <<0, 1>>, name |-> "x.txt", path |-> "assets/x.txt", type |-> "other",
    size |-> 1, content |-> TextContent("x"), mimeType |-> "text/plain"],
   [id |-> <<0, 2>>, name |-> "y.css", path |-> "css/y.css", type |-> "css",
    size |-> 2, content |-> TextContent("{}"), mimeType |-> "text/css"]}

StorageCreate ==
  LET id == Cardinality(DOMAIN extractions) + 1 IN
  /\ id <= MaxExtractions
  /\ extractions' = createExtractionResult(extractions, id, RootUrl("site"))
  /\ reply' = Returned("create", id, extractions'[id])
  /\ UNCHANGED <<proc, gets, sent>>

StorageGet(id) ==
  /\ reply' = Returned("get", id, getExtractionResult(extractions, id))
  /\ UNCHANGED <<extractions, proc, gets, sent>>

StorageUpdate(id, updates) ==
  /\ extractions' = updateExtractionResult(extractions, id, updates)
  /\ reply' = IF Throws(extractions, id) THEN Thrown("update", id)
              ELSE Returned("update", id, extractions'[id])
  /\ UNCHANGED <<proc, gets, sent>>

StorageAddFile(id, file) ==
  /\ id \in DOMAIN extractions => Len(extractions[id].files) < MaxFiles
  /\ extractions' = addFileToExtraction(extractions, id, file)
  /\ reply' = IF Throws(extractions, id) THEN Thrown("addFile", id)
              ELSE Returned("addFile", id, "void")
  /\ UNCHANGED <<proc, gets, sent>>

StoreNext ==
  \/ StorageCreate
  \/ \E id \in 1..(MaxExtractions + 1) : StorageGet(id)
  \/ \E id \in 1..(MaxExtractions + 1) : \E updates \in StoreUpdates :
       StorageUpdate(id, updates)
  \/ \E id \in 1..(MaxExtractions + 1) : \E file \in StoreFiles :
       StorageAddFile(id, file)

StoreSpec == Init /\ [][StoreNext]_vars

(***************************************************************************)
(* Properties.                                                             *)
(***************************************************************************)
Ids == DOMAIN extractions

Issued(id, kind) == {g \in Range(gets[id]) : g.kind = kind}

\* the root page of id has been fetched and scanned
Scanned(id) ==
  id \in DOMAIN proc /\ proc[id].pc \in {"source", "batch", "probe", "payload", "completing", "done"}

Status(id) == extractions[id].status

\* C1: in every reachable state of every stored result, totalFiles is the
\* number of entries of files and totalSize is the sum of their sizes.
TotalsMatchFiles ==
  \A id \in Ids :
    /\ extractions[id].totalFiles = Len(extractions[id].files)
    /\ extractions[id].totalSize = SumSizes(extractions[id].files)

TotalsMatchFilesWitness ==
  \E id \in Ids :
    /\ Status(id) = "completed"
    /\ extractions[id].totalFiles >= 5
    /\ extractions[id].totalSize > 0

StatusSteps ==
  {<<"pending", "processing">>, <<"processing", "completed">>, <<"processing", "failed">>}

\* C2: a result is created pending, and every step leaves its status as it
\* is or moves it along pending -> processing -> completed or
\* pending -> processing -> failed; nothing leaves completed or failed.
StatusFollowsStateMachine ==
  [][\A id \in DOMAIN extractions' :
       IF id \notin Ids THEN extractions'[id].status = "pending"
       ELSE \/ extractions'[id].status = Status(id)
            \/ <<Status(id), extractions'[id].status>> \in StatusSteps]_vars

StatusFollowsStateMachineWitness ==
  \E id \in Ids : Status(id) = "failed" /\ proc[id].pc = "failed"

\* once the root page is scanned the extraction is neither rejected nor
\* failed, and when it is completed every fetchable URL of the asset array
\* has had its GET, ended
FailuresStayLocal ==
  \A id \in Ids :
    Scanned(id) =>
      /\ Status(id) \in {"processing", "completed"}
      /\ Status(id) = "completed" =>
           \A k \in 1..Len(proc[id].assetArray) :
             ~SkipsFetch(proc[id].assetArray[k]) =>
               \E g \in Issued(id, "asset") : g.url = proc[id].assetArray[k] /\ Over(g)

\* C3: once the root page has been fetched and scanned, no outcome of an
\* asset fetch makes the extraction fail or keeps the other assets of the
\* same and of later batches from being fetched, and the extraction
\* reaches completed.
AssetFailuresIsolated ==
  /\ []FailuresStayLocal
  /\ \A id \in 1..MaxExtractions :
       Scanned(id) ~> (id \in Ids /\ Status(id) = "completed")

AssetFailuresIsolatedWitness ==
  \E id \in Ids :
    /\ Status(id) = "completed"
    /\ \E g \in Issued(id, "asset") : g.batch = 1 /\ g.state = "failed"
    /\ \E g \in Issued(id, "asset") : g.batch = 1 /\ g.state = "settled"
    /\ \E g \in Issued(id, "asset") : g.batch = 2 /\ g.state = "settled"

\* C4: when the root GET has failed, no file is stored and no asset GET and
\* no probe GET is ever issued, and the extraction ends failed with an
\* error message.
RootFailureIsFatal ==
  \A id \in Ids :
    (\E g \in Issued(id, "root") : g.state = "failed") =>
      /\ extractions[id].files = <<>>
      /\ Issued(id, "asset") = {} /\ Issued(id, "probe") = {}
      /\ proc[id].pc \in {"rejected", "failed"}
      /\ proc[id].pc = "failed" =>
           /\ Status(id) = "failed"
           /\ "error" \in DOMAIN extractions[id]
           /\ extractions[id].error \in RootErrors

RootFailureIsFatalWitness ==
  \E id \in Ids :
    /\ proc[id].pc = "failed"
    /\ \E g \in Issued(id, "root") : g.state = "failed"
    /\ extractions[id].error = "timeout of 15000ms exceeded"

NothingOpenWhenCompleted ==
  \A id \in Ids :
    Status(id) = "completed" =>
      /\ \A g \in Range(gets[id]) : Over(g)
      /\ AllSettled(proc[id].members)

\* C5: while the status is completed no request of the extraction is open,
\* and from then on files and the totals never change.
CompletedIsFinal ==
  /\ []NothingOpenWhenCompleted
  /\ [][\A id \in Ids :
          Status(id) = "completed" =>
            /\ extractions'[id].files = extractions[id].files
            /\ extractions'[id].totalFiles = extractions[id].totalFiles
            /\ extractions'[id].totalSize = extractions[id].totalSize]_vars

CompletedIsFinalWitness ==
  \E id \in Ids :
    /\ Status(id) = "completed"
    /\ proc[id].pc = "done"
    /\ Issued(id, "asset") # {}
    /\ \E g \in Issued(id, "probe") : g.state = "settled"

\* C6: every file of every result has size equal to the byte length of its
\* content as stored.
SizeIsStoredLength ==
  \A id \in Ids :
    \A k \in 1..Len(extractions[id].files) :
      extractions[id].files[k].size = ByteLength(extractions[id].files[k].content)

\* C7: when the status is completed, every fetchable URL the CSS scans
\* added to the asset set has been requested.
CssReferencesFetched ==
  \A id \in Ids :
    Status(id) = "completed" =>
      \A k \in 1..Len(proc[id].assets) :
        ~SkipsFetch(proc[id].assets[k]) =>
          \E g \in Issued(id, "asset") : g.url = proc[id].assets[k]

\* the asset set of the page, and what its stylesheets refer to
PageAssets(page) == Range(ScannedAssets[page])

OneHop ==
  [page \in Pages |->
     UNION {Range(CssReferences(u, AssetBody(u))) :
              u \in {v \in PageAssets(page) :
                       ~SkipsFetch(v) /\ getFileType(AssetFileName(v)) = "css"}}]

\* C8: every asset GET of a run is for a URL of the page or for one a
\* stylesheet of the page refers to, never for one found only through a
\* stylesheet found through a stylesheet, and no URL is requested twice.
OneHopBound ==
  \A id \in Ids :
    LET reach == PageAssets(proc[id].page) \cup OneHop[proc[id].page] IN
    /\ \A g \in Issued(id, "asset") : g.url \in reach
    /\ Len(SelectSeq(gets[id], LAMBDA g : g.kind = "asset")) <= Cardinality(reach)

OneHopBoundWitness ==
  \E id \in Ids :
    /\ Status(id) = "completed"
    /\ \E g \in Issued(id, "asset") :
         /\ g.state = "settled"
         /\ Last(g.url.segs) = <<"a", "css">>
         /\ \E k \in 1..Len(proc[id].assets) : Last(proc[id].assets[k].segs) = <<"b", "css">>
    /\ \A g \in Issued(id, "asset") : Last(g.url.segs) # <<"c", "css">>

\* C9: no asset GET of a batch is issued before every asset GET of the
\* batches before it has ended and its member has returned.
BatchesInSequence ==
  \A id \in Ids :
    \A g, h \in Issued(id, "asset") : g.batch < h.batch => Over(g)

BatchesInSequenceWitness ==
  \E id \in Ids :
    /\ \E g \in Issued(id, "asset") : g.batch = 1 /\ g.state = "settled"
    /\ \E g \in Issued(id, "asset") : g.batch = 1 /\ g.state = "failed"
    /\ \E h \in Issued(id, "asset") : h.batch = 2 /\ h.state = "inflight"

\* the files the run of id has appended so far
Appended(id) ==
  LET p   == proc[id]
      doc == Document(p.page)
  IN  (IF Scanned(id)
       THEN Len(SelectSeq(doc.inlineScripts, LAMBDA sc : NonBlank(sc.text)))
            + Len(SelectSeq(doc.styles, NonBlank))
            + (IF p.includeSourcePage THEN 1 ELSE 0)
       ELSE 0)
      + Cardinality({k \in 1..Len(gets[id]) :
                       gets[id][k].kind = "asset" /\ gets[id][k].state \in {"answered", "settled"}})
      + p.payloadCount

\* C10: no append is lost, however the appends of the members of a batch
\* interleave: the file of every answered asset GET is in files, and files
\* and the totals count every append made so far.
NoLostAppend ==
  \A id \in Ids :
    /\ \A g \in Issued(id, "asset") :
         g.state \in {"answered", "settled"} =>
           \E k \in 1..Len(extractions[id].files) :
             extractions[id].files[k].name = NameString(AssetFileName(g.url))
    /\ Len(extractions[id].files) = Appended(id)
    /\ extractions[id].totalFiles = Appended(id)

NoLostAppendWitness ==
  \E id \in Ids :
    /\ proc[id].pc = "batch"
    /\ Cardinality({k \in 1..Len(proc[id].members) : proc[id].members[k] = "added"}) >= 2

\* C11: the record the start operation answers with has status pending, no
\* files and zero totals, and it is answered before any request of the
\* extraction has been issued, let alone finished.
StartAnswersPending ==
  /\ [](\A id \in DOMAIN sent :
          /\ sent[id].status = "pending"
          /\ sent[id].files = <<>>
          /\ sent[id].totalSize = 0
          /\ sent[id].totalFiles = 0)
  /\ [][\A id \in DOMAIN sent' \ DOMAIN sent : gets'[id] = <<>>]_vars

StartAnswersPendingWitness ==
  \E id \in DOMAIN sent :
    /\ sent[id].status = "pending"
    /\ Status(id) = "processing"
    /\ \E g \in Issued(id, "root") : g.state = "inflight"

\* the entries of the result of id stored under the path index.html
SourcePageEntries(id) ==
  SelectSeq(extractions[id].files, LAMBDA f : f.path = "index.html")

\* C12: a completed result holds an entry with path index.html exactly when
\* includeSourcePage was true; there is then one such entry and its content
\* is the document the root GET answered with.
SourcePageIffRequested ==
  \A id \in Ids :
    Status(id) = "completed" =>
      IF proc[id].includeSourcePage
      THEN /\ Len(SourcePageEntries(id)) = 1
           /\ SourcePageEntries(id)[1].content = TextContent(Document(proc[id].page).text)
      ELSE SourcePageEntries(id) = <<>>

SourcePageIffRequestedWitness ==
  /\ \E id \in Ids :
       /\ Status(id) = "completed"
       /\ proc[id].includeSourcePage
       /\ Len(SourcePageEntries(id)) = 1
       /\ Len(extractions[id].files) >= 4

\* C13: the archive of a completed result holds one file entry per file of
\* files, under the path stored for it.
ArchiveHasEveryFile ==
  \A id \in Ids :
    Status(id) = "completed" =>
      LET zip == Archive(extractions[id].files) IN
      /\ Cardinality(DOMAIN zip) = Len(extractions[id].files)
      /\ \A k \in 1..Len(extractions[id].files) :
           zip[extractions[id].files[k].path] = extractions[id].files[k].content

\* the asset GETs of id that were answered 2xx and whose file was appended
Fetched(id) ==
  SelectSeq(gets[id], LAMBDA g : g.kind = "asset" /\ g.state \in {"answered", "settled"})

\* the files of a completed result that come after the inline files and
\* the source page and before the payload files
AssetFiles(id) ==
  LET doc == Document(proc[id].page)
      pre == Len(SelectSeq(doc.inlineScripts, LAMBDA sc : NonBlank(sc.text)))
             + Len(SelectSeq(doc.styles, NonBlank))
             + (IF proc[id].includeSourcePage THEN 1 ELSE 0)
  IN  SubSeq(extractions[id].files, pre + 1,
             Len(extractions[id].files) - proc[id].payloadCount)

\* C14: no asset URL is requested twice in a run, and a completed result
\* holds one asset file for each asset GET that succeeded and none for a
\* URL whose GET failed or was skipped.
AssetsFetchedOnce ==
  \A id \in Ids :
    /\ \A j, k \in 1..Len(gets[id]) :
         (j < k /\ gets[id][j].kind = "asset" /\ gets[id][k].kind = "asset")
           => gets[id][j].url # gets[id][k].url
    /\ Status(id) = "completed" =>
         /\ Len(AssetFiles(id)) = Len(Fetched(id))
         /\ \A g \in Range(Fetched(id)) :
              LET name == NameString(AssetFileName(g.url)) IN
              Len(SelectSeq(AssetFiles(id), LAMBDA f : f.name = name))
                = Len(SelectSeq(Fetched(id),
                                LAMBDA h : NameString(AssetFileName(h.url)) = name))
         /\ \A k \in 1..Len(AssetFiles(id)) :
              AssetFiles(id)[k].name \notin {"index.html"}
                /\ AssetFiles(id)[k].type # "payload"

AssetsFetchedOnceWitness ==
  \E id \in Ids :
    /\ Status(id) = "completed"
    /\ \E g \in Issued(id, "asset") : g.state = "failed" /\ IsNetwork(g.url)
    /\ Len(Fetched(id)) = 2
    /\ Len(SelectSeq(ScannedReferences(Document(proc[id].page)),
                      LAMBDA r : r = PPng)) = 2

\* C15: in every reachable state a stored result has an error field exactly
\* when its status is failed.
ErrorIffFailed ==
  \A id \in Ids : ("error" \in DOMAIN extractions[id]) <=> (Status(id) = "failed")

ErrorIffFailedWitness ==
  \E id \in Ids :
    /\ Status(id) = "failed"
    /\ "error" \in DOMAIN extractions[id]
    /\ extractions[id].error = "Network Error"

\* C16: the id, the url and extractedAt of a stored result are the ones
\* create set: no status update and no append changes them.
IdentityIsImmutable ==
  /\ [](\A id \in Ids :
          /\ extractions[id].id = id
          /\ extractions[id].url = RootUrl(proc[id].page))
  /\ [][\A id \in Ids :
          /\ extractions'[id].id = extractions[id].id
          /\ extractions'[id].url = extractions[id].url
          /\ extractions'[id].extractedAt = extractions[id].extractedAt]_vars

IdentityIsImmutableWitness ==
  \E id \in Ids :
    /\ Status(id) = "completed"
    /\ extractions[id].url = RootUrl("site")
    /\ Len(extractions[id].files) >= 3
    /\ extractions[id].extractedAt = id - 1

\* C17: the type of every file of every result, of the main pipeline and of
\* the standalone server alike, is one of html, css, js, image, payload,
\* other.
TypesInSchema ==
  \A id \in Ids :
    \A k \in 1..Len(extractions[id].files) : extractions[id].files[k].type \in FileTypes

\* the folder the mapping css->css, js->js, image->images,
\* payload->payloads, anything else->assets gives a type
FolderOf(type) ==
  CASE type = "css" -> "css"
    [] type = "js" -> "js"
    [] type = "image" -> "images"
    [] type = "payload" -> "payloads"
    [] OTHER -> "assets"

InFolder(file) == file.path = FolderOf(file.type) \o "/" \o file.name

\* C18 as stated: the path of every file of files is <folder>/<name>, the
\* folder being the one the mapping gives its type.
PathIsFolderAndName ==
  \A id \in Ids :
    \A k \in 1..Len(extractions[id].files) : InFolder(extractions[id].files[k])

\* C18: the path of every file of files is <folder>/<name>, the folder
\* being the one the mapping gives its type, except for the source page,
\* which is stored under the path index.html, without a folder; only the
\* entry appended for includeSourcePage has that path.
PathIsFolderAndNameButSource ==
  \A id \in Ids :
    \A k \in 1..Len(extractions[id].files) :
      LET file == extractions[id].files[k] IN
      IF file.path = "index.html"
      THEN /\ proc[id].includeSourcePage
           /\ file.name = "index.html" /\ file.type = "html"
           /\ file.content = TextContent(Document(proc[id].page).text)
      ELSE InFolder(file)

PathIsFolderAndNameButSourceWitness ==
  \E id \in Ids :
    /\ Status(id) = "completed"
    /\ \E k \in 1..Len(extractions[id].files) : extractions[id].files[k].path = "index.html"
    /\ \E k \in 1..Len(extractions[id].files) : extractions[id].files[k].path = "images/p.png"
    /\ \E k \in 1..Len(extractions[id].files) : extractions[id].files[k].path = "css/a.css"
    /\ \E k \in 1..Len(extractions[id].files) :
         extractions[id].files[k].path = "payloads/api-response-1.json"

\* an asset URL the fetch is to skip: empty, longer than the maximum
\* length, or absolute with a scheme other than http and https
Skippable(u) ==
  \/ Length(u) = 0
  \/ Length(u) > MaxFetchUrlLength
  \/ IsAbsoluteUrl(u) /\ ~IsNetwork(u)

\* C19: for an asset URL that is empty, too long or of a non-network
\* scheme no GET is issued and no file is appended.
SkippedUnfetched ==
  \A id \in Ids :
    \A k \in 1..Len(proc[id].assetArray) :
      LET u == proc[id].assetArray[k] IN
      Skippable(u) =>
        /\ \A g \in Issued(id, "asset") : g.url # u
        /\ Status(id) = "completed" =>
             \A f \in Range(AssetFiles(id)) :
               \E g \in Range(Fetched(id)) :
                 ~Skippable(g.url) /\ f.name = NameString(AssetFileName(g.url))

\* C20: no request of an extraction is issued or open while its status is
\* pending: the status is processing when the root GET is started and at
\* every later GET, and it is processing while any request is open.
NoRequestWhilePending ==
  /\ [](\A id \in Ids :
          /\ Status(id) = "pending" => gets[id] = <<>>
          /\ (\E g \in Range(gets[id]) : ~Over(g)) => Status(id) = "processing")
  /\ [][\A id \in Ids :
          Len(gets'[id]) > Len(gets[id]) =>
            Status(id) = "processing" /\ extractions'[id].status = "processing"]_vars

NoRequestWhilePendingWitness ==
  \E id \in Ids :
    /\ Status(id) = "processing"
    /\ \E g \in Issued(id, "probe") : g.state = "inflight"
    /\ \E g \in Issued(id, "asset") : g.state = "settled"
    /\ \E g \in Issued(id, "root") : g.state = "settled"

\* id is in its payload probe
Probing(id) == id \in DOMAIN proc /\ proc[id].pc \in {"probe", "payload"}

\* C21: whatever the outcome of each probe GET, the extraction is never
\* failed and never gets an error field, the files appended before and
\* during probing stay as they are, and the status becomes completed.
ProbeFailuresIgnored ==
  /\ [](\A id \in Ids :
          /\ Probing(id) => Status(id) = "processing" /\ "error" \notin DOMAIN extractions[id]
          /\ (\E g \in Issued(id, "probe") : TRUE) /\ ~Probing(id) =>
               Status(id) = "completed" /\ "error" \notin DOMAIN extractions[id])
  /\ [][\A id \in Ids :
          Probing(id) =>
            /\ Len(extractions'[id].files) >= Len(extractions[id].files)
            /\ SubSeq(extractions'[id].files, 1, Len(extractions[id].files))
                 = extractions[id].files]_vars
  /\ \A id \in 1..MaxExtractions :
       Probing(id) ~> (id \in Ids /\ Status(id) = "completed")

ProbeFailuresIgnoredWitness ==
  \E id \in Ids :
    /\ Status(id) = "completed"
    /\ "error" \notin DOMAIN extractions[id]
    /\ \E g \in Issued(id, "probe") : g.state = "failed"
    /\ \E g \in Issued(id, "probe") :
         g.state = "settled" /\ ~IncludesJson(ApiAnswer(g.url).ctype)
    /\ extractions[id].files # <<>>

\* the URLs the server's scan of a page discovers: the references of its
\* four selector groups that resolve and are no data: URI
Discovered(page) ==
  {u \in {ServerResolveUrl(RootUrl(page), r) :
            r \in Range(ServerScannedReferences(Document(page)))} :
     u # Null /\ ~StartsWithData(u)}

\* the contents of the inline files and the source page of id, in order
PageOnlyContents(id) ==
  LET doc     == Document(proc[id].page)
      scripts == SelectSeq(doc.inlineScripts, LAMBDA sc : NonBlank(sc.text))
      styles  == SelectSeq(doc.styles, NonBlank)
  IN  [k \in 1..Len(scripts) |-> TextContent(scripts[k].text)]
      \o [k \in 1..Len(styles) |-> TextContent(styles[k])]
      \o (IF proc[id].includeSourcePage THEN <<TextContent(doc.text)>> ELSE <<>>)

\* C22: in the standalone server, an extraction with includePayloads false
\* issues no asset GET and its completed result holds exactly the inline
\* script files, the inline style files and, when includeSourcePage is
\* true, index.html; a completed extraction with includePayloads true has
\* requested every discovered asset URL.
ServerPayloadsGateAssets ==
  \A id \in Ids :
    /\ ~proc[id].includePayloads =>
         /\ Issued(id, "asset") = {}
         /\ Status(id) = "completed" =>
              /\ [k \in 1..Len(extractions[id].files) |-> extractions[id].files[k].content]
                   = PageOnlyContents(id)
              /\ \A k \in 1..Len(extractions[id].files) :
                   extractions[id].files[k].path = "index.html"
                     <=> proc[id].includeSourcePage /\ k = Len(extractions[id].files)
    /\ proc[id].includePayloads /\ Status(id) = "completed" =>
         /\ \A u \in Discovered(proc[id].page) :
              \E g \in Issued(id, "asset") : g.url = u /\ g.state \in {"settled", "failed"}
         /\ \A g \in Issued(id, "asset") : g.url \in Discovered(proc[id].page)

ServerPayloadsGateAssetsWitness ==
  \E id \in Ids :
    /\ ~proc[id].includePayloads /\ proc[id].includeSourcePage
    /\ Status(id) = "completed"
    /\ Len(extractions[id].files) = 3
    /\ Cardinality(Discovered(proc[id].page)) >= 4

\* the probe GETs of id whose answer was 2xx with a JSON content type
JsonProbes(id) ==
  {g \in Issued(id, "probe") :
     g.state = "settled" /\ IncludesJson(ApiAnswer(g.url).ctype)}

\* C23: in the main pipeline includePayloads gates the payload probe only.
\* With includePayloads false no probe GET is issued, and a completed
\* extraction has fetched every fetchable URL of the page's asset array,
\* each in the batch of its position; with includePayloads true there are
\* at most 5 probe GETs, and the payload files are exactly the wrapped
\* answers of the probes that answered with a JSON content type.
PayloadsGateProbeOnly ==
  \A id \in Ids \cap DOMAIN proc :
    LET array  == ScannedAssets[proc[id].page]
        probes == SelectSeq(gets[id], LAMBDA g : g.kind = "probe")
        files  == extractions[id].files
    IN  /\ ~proc[id].includePayloads => probes = <<>>
        /\ Status(id) = "completed" =>
             \A k \in 1..Len(array) :
               ~SkipsFetch(array[k]) =>
                 \E g \in Issued(id, "asset") :
                   /\ g.url = array[k]
                   /\ g.batch = ((k - 1) \div batchSize) + 1
                   /\ Over(g)
        /\ Len(probes) <= 5
        /\ {f.content : f \in {f \in Range(files) : f.type = "payload"}}
             = {TextContent(WrapperText(g.url, ApiAnswer(g.url))) : g \in JsonProbes(id)}
        /\ Cardinality({k \in 1..Len(files) : files[k].type = "payload"})
             = Cardinality(JsonProbes(id))

PayloadsGateProbeOnlyWitness ==
  \E id \in Ids :
    /\ proc[id].includePayloads
    /\ Status(id) = "completed"
    /\ Cardinality(Issued(id, "probe")) = 5
    /\ Cardinality(JsonProbes(id)) = 1
    /\ \E g \in Issued(id, "probe") :
         g.state = "settled" /\ ~IncludesJson(ApiAnswer(g.url).ctype)

\* C24: every payload-probe GET targets a URL whose origin is the origin of
\* the requested root URL, whatever the script text of the page holds.
ProbesSameOrigin ==
  \A id \in Ids :
    \A g \in Issued(id, "probe") : Origin(g.url) = Origin(extractions[id].url)

\* the requests of one kind that id has issued and that have not ended
InFlight(id, kind) ==
  {k \in 1..Len(gets[id]) : gets[id][k].kind = kind /\ ~Over(gets[id][k])}

\* C25: at any moment at most 10 asset fetches of one extraction are in
\* flight and at most one payload probe is, and once a probe has been
\* issued no asset fetch of the extraction is in flight.
BoundedConcurrency ==
  \A id \in Ids :
    /\ Cardinality(InFlight(id, "asset")) <= 10
    /\ Cardinality(InFlight(id, "probe")) <= 1
    /\ Issued(id, "probe") # {} => InFlight(id, "asset") = {}

BoundedConcurrencyWitness ==
  \E id \in Ids :
    /\ Cardinality(InFlight(id, "asset")) = 10
    /\ Cardinality({u \in Range(ScannedAssets[proc[id].page]) : ~SkipsFetch(u)}) = 11
    /\ Cardinality(Issued(id, "asset")) = 10

\* the names `asset-<random8>` can take
SynthesizedNames == {"asset-" \o Random8Values[k] : k \in 1..Len(Random8Values)}

\* C26: the file of a fetched asset is named by the last path segment of
\* its URL, without the query string, and by a synthesized
\* `asset-<random8>` when that segment is empty.
NamedByLastSegment ==
  \A id \in Ids :
    \A g \in Issued(id, "asset") :
      g.state \in {"answered", "settled"} =>
        \E f \in Range(extractions[id].files) :
          IF Last(g.url.segs) = EmptyName THEN f.name \in SynthesizedNames
          ELSE f.name = NameString(Last(g.url.segs))

\* the asset GET k of id gets its 2xx answer in this step
AnswersNow(id, k) ==
  /\ gets[id][k].kind = "asset"
  /\ gets[id][k].state = "inflight"
  /\ gets'[id][k].state \in {"answered", "settled"}

\* the extension of the last path segment of u, "" when it has none
UrlExtension(u) ==
  LET name == Last(u.segs) IN
  IF Len(name) < 2 THEN "" ELSE ToLowerCase(Last(name))

\* the extensions both classifiers recognise with the same category
ExtensionCategory ==
  [ext \in {"css", "js", "mjs", "ts", "jsx", "tsx", "html", "htm",
            "png", "jpg", "jpeg", "gif", "svg", "webp", "ico"} |->
     CASE ext = "css" -> "css"
       [] ext \in {"js", "mjs", "ts", "jsx", "tsx"} -> "js"
       [] ext \in {"html", "htm"} -> "html"
       [] OTHER -> "image"]

\* C27: classification is extension-first: the file of an answered asset
\* whose URL has a recognised extension gets the category of that
\* extension, whatever content type the answer declares.
ExtensionFirst ==
  [][\A id \in Ids : \A k \in 1..Len(gets[id]) :
       /\ AnswersNow(id, k)
       /\ Len(extractions'[id].files) = Len(extractions[id].files) + 1
       /\ UrlExtension(gets[id][k].url) \in DOMAIN ExtensionCategory
       => Last(extractions'[id].files).type
            = ExtensionCategory[UrlExtension(gets[id][k].url)]]_vars

RECURSIVE Base64Decode(_)
\* the bytes a base64 text stands for
Base64Decode(b64) ==
  IF Len(b64) < 4 THEN <<>>
  ELSE LET q == SubSeq(b64, 1, 4) IN
       CASE q[3] = Pad -> <<q[1] * 4 + q[2] \div 16>>
         [] q[3] # Pad /\ q[4] = Pad ->
              <<q[1] * 4 + q[2] \div 16, (q[2] % 16) * 16 + q[3] \div 4>>
         [] OTHER ->
              <<q[1] * 4 + q[2] \div 16, (q[2] % 16) * 16 + q[3] \div 4,
                (q[3] % 4) * 64 + q[4]>>
              \o Base64Decode(SubSeq(b64, 5, Len(b64)))

\* the canonical type of a binary extension
CanonicalMime(ext) ==
  CASE ext = "png" -> "image/png"
    [] ext = "gif" -> "image/gif"
    [] ext \in {"jpg", "jpeg"} -> "image/jpeg"
    [] OTHER -> "text/plain"

\* C28: in the main pipeline the file of an answered asset with a binary
\* extension holds a base64 data URI that decodes to the bytes of the
\* answer and whose MIME prefix is the file's mimeType, the declared
\* content type or else the canonical type of the extension; the file of
\* any other answered asset holds the text of the answer unchanged.
BinaryContentRoundTrips ==
  [][\A id \in Ids : \A k \in 1..Len(gets[id]) :
       AnswersNow(id, k) =>
         LET url  == gets[id][k].url
             body == AssetBody(url)
             f    == Last(extractions'[id].files)
         IN  /\ Len(extractions'[id].files) = Len(extractions[id].files) + 1
             /\ IF UrlExtension(url) \in BinaryExtensions
                THEN /\ f.content.kind = "datauri"
                     /\ Base64Decode(f.content.b64) = body.bytes
                     /\ f.content.mime = f.mimeType
                     /\ f.mimeType = IF body.ctype # "" THEN body.ctype
                                     ELSE CanonicalMime(UrlExtension(url))
                ELSE f.content = [kind |-> "text", text |-> body.text,
                                  mime |-> "", b64 |-> <<>>]]_vars

BinaryContentRoundTripsWitness ==
  \E id \in Ids :
    LET files == Range(extractions[id].files) IN
    /\ \E f \in files : f.content.kind = "datauri" /\ f.mimeType = "image/png"
                          /\ Base64Decode(f.content.b64) = <<137, 80, 78, 71>>
    /\ \E f \in files : f.content.kind = "datauri" /\ f.mimeType = "image/x-png"
                          /\ Len(f.content.b64) = 8
    /\ \E f \in files : f.name = "a.css" /\ f.content.text = "@import 'b.css';"

\* C29: a download request is answered with the archive of the files only
\* when the stored status is completed at that moment, with 400
\* `Extraction not completed` for a stored result of any other status and
\* with 404 `Extraction not found` for an unknown id; no download or status
\* request changes the store.
ReadsAnswerByStatus ==
  [][reply' # reply =>
       /\ extractions' = extractions
       /\ reply'.op = "status" /\ reply'.id \in Ids =>
            reply'.code = 200 /\ reply'.body = extractions[reply'.id]
       /\ reply'.op = "download" =>
            LET id == reply'.id IN
            IF id \notin Ids
            THEN reply'.code = 404 /\ reply'.body = [message |-> "Extraction not found"]
            ELSE IF Status(id) \in {"pending", "processing", "failed"}
            THEN reply'.code = 400 /\ reply'.body = [message |-> "Extraction not completed"]
            ELSE /\ Status(id) = "completed"
                 /\ reply'.code = 200
                 /\ DOMAIN reply'.body.zip = {f.path : f \in Range(extractions[id].files)}
                 /\ \A path \in DOMAIN reply'.body.zip :
                      \E f \in Range(extractions[id].files) :
                        f.path = path /\ f.content = reply'.body.zip[path]]_vars

ReadsAnswerByStatusWitness ==
  /\ reply.op = "download"
  /\ reply.code = 200
  /\ DOMAIN reply.body.zip = {"index.html", "js/inline-script-0000000a.js"}

\* C30: on an id the store does not hold, get returns not-found, update
\* and appendFile throw `Extraction not found`, and the set of ids and
\* every stored record stay as they were.
UnknownIdLeavesStore ==
  [][/\ reply' # reply
     /\ reply'.op \in {"get", "update", "addFile"}
     /\ reply'.id \notin Ids
     => /\ extractions' = extractions
        /\ reply'.op = "get" =>
             reply'.outcome = "returned" /\ reply'.value = [undefined |-> TRUE]
        /\ reply'.op \in {"update", "addFile"} =>
             /\ reply'.outcome = "thrown"
             /\ reply'.value = [message |-> "Extraction not found"]]_vars

UnknownIdLeavesStoreWitness ==
  /\ reply.op = "update"
  /\ reply.outcome = "thrown"
  /\ reply.id \notin Ids
  /\ \E id \in Ids : Len(extractions[id].files) = MaxFiles /\ Status(id) = "completed"

\* C31: in the standalone server, whatever the status of a result, its
\* totalFiles is the number of entries of its files and its totalSize is
\* the sum of their sizes.
ServerTotalsMatchFiles ==
  \A id \in Ids :
    Status(id) \in {"pending", "processing", "completed", "failed"} =>
      /\ extractions[id].totalFiles = Len(extractions[id].files)
      /\ extractions[id].totalSize = SumSizes(extractions[id].files)

\* C32: in the standalone server, the record the start operation sends
\* back has status pending.
ServerStartAnswersPending ==
  \A id \in DOMAIN sent : sent[id].status = "pending"

\* C33: files is append-only and in completion order: a step leaves the
\* files of a result as they are or adds files at the end, an answered
\* asset GET adds one file, the file of that asset, and when a member of
\* batch N adds its file every member of the batches before N has ended
\* and no member of a batch after N has been issued.
AppendOnlyInCompletionOrder ==
  [][\A id \in Ids :
       LET old == extractions[id].files
           new == extractions'[id].files
       IN  /\ Len(new) >= Len(old)
           /\ SubSeq(new, 1, Len(old)) = old
           /\ \A k \in 1..Len(gets[id]) :
                AnswersNow(id, k) =>
                  /\ Len(new) = Len(old) + 1
                  /\ Last(new).name = NameString(Last(gets[id][k].url.segs))
                  /\ \A j \in 1..Len(gets[id]) :
                       gets[id][j].kind = "asset" =>
                         /\ gets[id][j].batch <= gets[id][k].batch
                         /\ gets[id][j].batch < gets[id][k].batch => Over(gets[id][j])]_vars

AppendOnlyInCompletionOrderWitness ==
  \E id \in Ids :
    /\ \E g \in Issued(id, "asset") : g.batch = 1 /\ g.state = "settled"
    /\ \E g \in Issued(id, "asset") : g.batch = 2 /\ g.state = "settled"
    /\ Len(extractions[id].files) >= 5

\* the status of id is completed or failed
Ended(id) == id \in Ids /\ Status(id) \in {"completed", "failed"}

\* C34: when every issued request ends, every created result reaches the
\* status completed or failed and keeps it, whatever the page, the two
\* options and the outcomes of the asset and probe requests are.
EveryExtractionTerminates ==
  \A id \in 1..MaxExtractions : (id \in Ids) ~> []Ended(id)

EveryExtractionTerminatesWitness ==
  \E id \in Ids :
    /\ Ended(id)
    /\ proc[id].pc = "done"
    /\ proc[id].includePayloads /\ ~proc[id].includeSourcePage
    /\ \E g \in Issued(id, "asset") : g.state = "failed"
    /\ \E g \in Issued(id, "probe") : g.state = "failed"
    /\ \E g \in Issued(id, "probe") : g.state = "settled"

\* the phase a file of the main pipeline comes from: 1 inline script or
\* style, 2 source page, 3 fetched asset, 4 payload
Phase(f) ==
  CASE f.name \in {"inline-script-" \o Random8Values[k] \o ".js" : k \in 1..Len(Random8Values)}
         \cup {"inline-style-" \o Random8Values[k] \o ".css" : k \in 1..Len(Random8Values)} -> 1
    [] f.path = "index.html" -> 2
    [] f.name \in {"api-response-" \o n \o ".json" : n \in {"1", "2", "3", "4", "5"}} -> 4
    [] OTHER -> 3

\* C35: in a completed result of the main pipeline the files are in phase
\* order: the inline script and style files, then index.html when it is
\* included, then the files of the fetched assets, then the payload files.
FilesInPhaseOrder ==
  \A id \in Ids \cap DOMAIN proc :
    Status(id) = "completed" =>
      LET files == extractions[id].files
          doc   == Document(proc[id].page)
          count(ph) == Cardinality({k \in 1..Len(files) : Phase(files[k]) = ph})
      IN  /\ \A j, k \in 1..Len(files) : j < k => Phase(files[j]) <= Phase(files[k])
          /\ count(1) = Len(SelectSeq(doc.inlineScripts, LAMBDA sc : NonBlank(sc.text)))
                        + Len(SelectSeq(doc.styles, NonBlank))
          /\ count(2) = IF proc[id].includeSourcePage THEN 1 ELSE 0
          /\ count(3) = Len(Fetched(id))
          /\ count(4) = Cardinality(JsonProbes(id))

FilesInPhaseOrderWitness ==
  \E id \in Ids :
    /\ Status(id) = "completed"
    /\ \A ph \in 1..4 : \E f \in Range(extractions[id].files) : Phase(f) = ph
    /\ Len(Fetched(id)) = 3

\* C36: extractions with different ids are isolated: a step that changes
\* the stored result of one id is a step of the run of that id and leaves
\* every other stored result as it was, and every file of a result was
\* appended by the run started with its id.
IsolatedExtractions ==
  /\ [][\A id \in Ids :
          extractions'[id] # extractions[id] =>
            /\ proc'[id] # proc[id]
            /\ \A other \in Ids \ {id} :
                 extractions'[other] = extractions[other] /\ proc'[other] = proc[other]]_vars
  /\ [](\A id \in Ids :
          /\ extractions[id].id = id
          /\ \A f \in Range(extractions[id].files) :
               /\ f.id[1] = id
               /\ f.path = "index.html" => proc[id].includeSourcePage)

IsolatedExtractionsWitness ==
  \E a, b \in Ids :
    /\ a # b
    /\ proc[a].includeSourcePage /\ ~proc[b].includeSourcePage
    /\ Status(a) = "processing" /\ Len(extractions[a].files) = 2 /\ proc[a].pc = "source"
    /\ Status(b) = "failed" /\ extractions[b].files = <<>>

\* the client holds a status answer for id with one of the given statuses
Observes(id, statuses) ==
  /\ reply.op = "status"
  /\ reply.id = id
  /\ reply.code = 200
  /\ reply.body.status \in statuses

\* C37: a client that takes the id from the start response and polls the
\* status endpoint while the last status it saw is processing never sees
\* pending, and sees completed or failed for every extraction it started.
PollingObservesEnd ==
  /\ [](\A id \in DOMAIN sent : ~Observes(id, {"pending"}))
  /\ \A id \in 1..MaxExtractions :
       (id \in DOMAIN sent) ~> Observes(id, {"completed", "failed"})

PollingObservesEndWitness ==
  \E id \in DOMAIN sent :
    /\ sent[id].status = "pending"
    /\ Observes(id, {"completed"})
    /\ Len(reply.body.files) = 2

====
